---- MODULE Spec2Model ----
(***************************************************************************)
(* State-machine model of the TikTok trending scraper service.             *)
(*                                                                         *)
(* The repository holds six versions of server.js.  The model runs one of  *)
(* them per behaviour (the variable program, fixed at start):              *)
(*   "legacy"    src/server.js lines 1-289    (lastCache, newContext)      *)
(*   "mobile"    src/server.js lines 291-1059 (SimpleCache, retries)       *)
(*   "v2"        src/unnamed/part_000         (API key, makeContext)       *)
(*   "tested"    src/unnamed/part_001         (SimpleCache, retries)       *)
(*   "basic"     src/unnamed/part_002         (API key, inline launch)     *)
(*   "improved"  src/unnamed/part_003         (SimpleCache, rate limiter)  *)
(*                                                                         *)
(* JavaScript runs a handler without interruption from one await to the    *)
(* next, so every action is one such segment of one request: the arrival   *)
(* (middleware, route handler up to its first await) and then the          *)
(* resumption after each awaited browser operation, with both outcomes of  *)
(* the operation (it resolves, it rejects).                                *)
(***************************************************************************)
EXTENDS Integers, Sequences, FiniteSets, TLC

\* ------------------------------------------------------------------ bounds
MaxFaults == 1       \* rejected browser operations while two requests run
Ttl == 1             \* cache time-to-live, in clock ticks
MaxFound == 2        \* most videos one scrape finds

\* ------------------------------------------------------- program constants
LIMIT_DEFAULT == 50
LIMIT_CAP == 100
MAX_RETRIES == 3
RETRY_BASE_MOBILE == 3000
RETRY_BASE_OTHER == 2000

\* Two requests, which may overlap, with at most MaxFaults rejections between
\* them; or one request with as many rejections as a whole retry sequence and
\* one more.
Req == {1, 2}
SoloFaults == MAX_RETRIES + 2
MaxTime == Ttl + 1

Programs == {"legacy", "mobile", "v2", "tested", "basic", "improved"}
KeyedPrograms == {"mobile", "tested", "improved"}
GatedPrograms == {"v2", "basic"}

Min(a, b) == IF a < b THEN a ELSE b
Max(a, b) == IF a > b THEN a ELSE b

\* ------------------------------------------------------------------ inputs
\* The limit query parameter: absent, a text parseInt cannot read, or an integer.
NoQuery == [kind |-> "absent", val |-> 0]
TextQuery == [kind |-> "text", val |-> 0]
IntQuery(n) == [kind |-> "int", val |-> n]
\* The queries of the requests that run against the cache and the browser ...
Queries == {NoQuery, IntQuery(-1), IntQuery(1)}
\* ... and those of the requests that only have their limit computed.
WideQueries == {NoQuery, TextQuery} \cup {IntQuery(n) : n \in -3..103}

\* The x-api-key header of a request, and the configured API_KEY ("" = none).
Headers == {"absent", "k1", "k2"}
ApiKeys == {"", "k1"}

Routes(p) ==
  CASE p = "legacy"   -> {"health", "debug", "top50"}
    [] p = "mobile"   -> {"health", "debug", "test", "trending", "top50"}
    [] p = "v2"       -> {"health", "ip", "debug", "top50"}
    [] p = "tested"   -> {"health", "debug", "trending", "top50"}
    [] p = "basic"    -> {"health", "top50"}
    [] p = "improved" -> {"health", "debug", "trending", "top50", "cacheClear"}

\* ------------------------------------------------------------ limit parsing
\* parseInt(req.query.limit ?? LIMIT_DEFAULT, 10): NaN for unreadable text.
ParseInt(q) ==
  CASE q.kind = "absent" -> [nan |-> FALSE, val |-> LIMIT_DEFAULT]
    [] q.kind = "text"   -> [nan |-> TRUE, val |-> 0]
    [] q.kind = "int"    -> [nan |-> FALSE, val |-> q.val]

\* x || LIMIT_DEFAULT: NaN and 0 are falsy.
OrDefault(n) == IF n.nan \/ n.val = 0 THEN LIMIT_DEFAULT ELSE n.val

\* Math.min(parseInt(...) || LIMIT_DEFAULT, 100)
EffectiveLimit(q) == Min(OrDefault(ParseInt(q)), LIMIT_CAP)

\* Array.prototype.slice(0, limit) on a list of n elements: a negative limit
\* counts from the end.
SliceLen(n, limit) == IF limit >= 0 THEN Min(n, limit) ELSE Max(n + limit, 0)

\* ------------------------------------------------------------- SimpleCache
NoValue == [for |-> 0, by |-> 0, n |-> 0, null |-> TRUE]
Result(limit, r, n) == [for |-> limit, by |-> r, n |-> n, null |-> FALSE]

CacheKey(limit) == <<"trending_", limit>>

MapPut(m, k, e) == [x \in (DOMAIN m) \cup {k} |-> IF x = k THEN e ELSE m[x]]
\* A delete that takes every entry with it.
MapDeleteEvery(m, k) == [x \in {} |-> m[x]]

MapDelete(m, k) == [x \in (DOMAIN m) \ {k} |-> m[x]]
EmptyMap == [x \in {} |-> NoValue]

\* A set that leaves an entry that is there as it is.
SimpleCacheSetKeepsFirst(c, k, v, t) ==
  IF k \in DOMAIN c THEN c ELSE MapPut(c, k, [value |-> v, expires |-> t + Ttl])

\* set(key, value): expires = Date.now() + this.ttl
SimpleCacheSet(c, k, v, t) == MapPut(c, k, [value |-> v, expires |-> t + Ttl])

\* An entry that expires one tick early: >= for >.
ExpiredEarly(e, t) == t >= e.expires

\* Date.now() > item.expires
Expired(e, t) == t > e.expires

\* A get with the comparison turned round: live entries are dropped.
SimpleCacheGetInverted(c, k, t) ==
  IF k \notin DOMAIN c THEN [value |-> NoValue, cache |-> c]
  ELSE IF t < c[k].expires THEN [value |-> NoValue, cache |-> MapDelete(c, k)]
  ELSE [value |-> c[k].value, cache |-> c]

\* get(key): [value, cache after the call]
SimpleCacheGet(c, k, t) ==
  IF k \notin DOMAIN c THEN [value |-> NoValue, cache |-> c]
  ELSE IF Expired(c[k], t) THEN [value |-> NoValue, cache |-> MapDelete(c, k)]
  ELSE [value |-> c[k].value, cache |-> c]

SimpleCacheClear(c) == EmptyMap
SimpleCacheSize(c) == Cardinality(DOMAIN c)

\* ------------------------------------------------------- API key middleware
\* A gate that only asks for some key to be sent.
ApiKeyPassesAnyKey(key, hdr) ==
  IF key = "" THEN TRUE
  ELSE IF hdr = "absent" THEN FALSE
  ELSE TRUE

\* TRUE when the middleware calls next().
ApiKeyPasses(key, hdr) ==
  IF key = "" THEN TRUE
  ELSE IF hdr # key THEN FALSE
  ELSE TRUE


\* ------------------------------------------------------------------- state
VARIABLES
  program,    \* which version of server.js runs
  apiKey,     \* process.env.API_KEY || ""
  now,        \* Date.now(), in ticks
  cache,      \* SimpleCache.cache: key -> [value, expires]
  lastCache,  \* legacy: { ts, data }
  req,        \* the requests: position and locals of each handler
  faults,     \* rejections of browser operations still to come
  written,    \* history: key -> [value, at] of the last set since the last clear
  lastOp,     \* history: the last SimpleCache call and what it returned
  calc        \* a pure function under test: its input and, once applied, its output

vars == <<program, apiKey, now, cache, lastCache, req, faults, written, lastOp, calc>>

NoResp == [status |-> 0, fields |-> {}, result |-> NoValue]
Resp(status, fields, result) == [status |-> status, fields |-> fields, result |-> result]

NewReq ==
  [pc |-> "new", route |-> "none", q |-> NoQuery, hdr |-> "absent",
   limit |-> 0, t0 |-> 0, retries |-> 0, waits |-> <<>>,
   bound |-> FALSE, open |-> 0, closes |-> 0,
   failed |-> FALSE, hit |-> FALSE, pend |-> NoResp, resp |-> NoResp, nresp |-> 0]

NoOp == [op |-> "none", key |-> CacheKey(0), value |-> NoValue, at |-> 0]

\* No pure function is under test while the server runs.
NoCalc == [fn |-> "none"]

\* res.json(...) / res.status(...).json(...)
Send(rq, rsp) == [rq EXCEPT !.resp = rsp, !.nresp = @ + 1, !.pend = NoResp]

\* The route a request ends in: the keyed versions rewrite /top50 to /trending
\* and hand the request back to the router.
Resolve(p, route) == IF p \in KeyedPrograms /\ route = "top50" THEN "trending" ELSE route

ReadsLimit(p, route) == route = "trending" \/ (route = "top50" /\ p \in KeyedPrograms \cup {"legacy"})

\* Routes whose handler opens a browser whatever the cache holds.
OpensDirectly(p, route) ==
  route \in {"debug", "test", "ip"} \/ (route = "top50" /\ p \in {"v2", "basic"})

\* ----------------------------------------------------------- error handling
\* One retry too many: <= for <.
CanRetryOnceMore(retries) == retries <= MAX_RETRIES

\* createBrowserContext(retries): if (retries < CONFIG.MAX_RETRIES) retry
CanRetry(retries) == retries < MAX_RETRIES

RetryBase(p) == IF p = "mobile" THEN RETRY_BASE_MOBILE ELSE RETRY_BASE_OTHER

\* setTimeout(resolve, base * (retries + 1))
RetryDelay(p, retries) == RetryBase(p) * (retries + 1)

\* A throw at this stage ("open", "page", "work") passes a finally block that
\* closes the session.
Protected(p, route, stage) ==
  CASE p \in KeyedPrograms -> TRUE
    [] p = "legacy" /\ route = "top50" -> stage # "open"
    [] p = "legacy" /\ route = "debug" -> stage = "work"
    [] OTHER -> FALSE

\* The handler catches a throw at this stage and answers; otherwise the
\* rejection leaves the async handler and no response is sent.
Caught(p, route, stage) == ~(p = "legacy" /\ route = "debug" /\ stage # "work")

\* The handler keeps the error in the info object and answers 200.
Captured(p, route, stage) ==
  route = "debug" /\ stage = "work" /\ p \in {"legacy", "mobile", "improved"}

\* The keys of the JSON body the catch block sends.
ErrorFields(p, route) ==
  CASE route = "trending" /\ p = "tested" -> {"error", "message"}
    [] route = "trending" -> {"error", "message", "timestamp"}
    [] route = "debug" /\ p \in KeyedPrograms -> {"error", "message"}
    [] route = "top50" /\ p = "legacy" -> {"error", "msg"}
    [] OTHER -> {"error"}

ErrorResp(p, route, stage) ==
  IF Captured(p, route, stage) THEN Resp(200, {"info", "error"}, NoValue)
  ELSE Resp(500, ErrorFields(p, route), NoValue)

\* The awaited navigation/extraction of the handler can reject: the mobile
\* getExploreVideos catches every per-URL error itself.
WorkCanThrow(p, route) == ~(p = "mobile" /\ route = "trending")

\* /debug and /test of the keyed versions hold try, catch and finally in the
\* handler itself: the catch block answers before the finally block closes.
AnswersBeforeClose(p, route) == p \in KeyedPrograms /\ route \in {"debug", "test"}

\* An exception at `stage` in the handler of rq: the finally block (when the
\* stage is inside one and the session variable is bound) awaits the close
\* first; then the catch block answers, or the rejection escapes.
Throw(p, rq, stage) ==
  LET route == rq.route
      f == [rq EXCEPT !.failed = TRUE, !.retries = 0, !.waits = <<>>]
      answer == ErrorResp(p, route, stage)
  IN IF (Captured(p, route, stage) /\ p # "legacy")
          \/ (AnswersBeforeClose(p, route) /\ rq.bound)
       THEN [Send(f, answer) EXCEPT !.pc = "awaitClose"]
     ELSE IF Protected(p, route, stage) /\ rq.bound
       THEN [f EXCEPT !.pc = "awaitClose", !.pend = answer]
     ELSE IF Caught(p, route, stage)
       THEN [Send(f, answer) EXCEPT !.pc = "done"]
     ELSE [f EXCEPT !.pc = "escaped"]


\* -------------------------------------------------------------------- Init
EmptyData == [for |-> 0, by |-> 0, n |-> 0, null |-> FALSE]

\* lastCache = { ts: 0, data: [] }: a timestamp far in the past of Date.now()
InitLastCache == [ts |-> 0 - Ttl, data |-> EmptyData]

Init ==
  /\ program \in Programs
  /\ apiKey \in (IF program \in GatedPrograms THEN ApiKeys ELSE {""})
  /\ now = 0
  /\ cache = EmptyMap
  /\ lastCache = InitLastCache
  /\ \/ req = [r \in Req |-> NewReq] /\ faults = MaxFaults
     \/ req = [r \in Req |-> IF r = 1 THEN NewReq ELSE [NewReq EXCEPT !.pc = "absent"]]
          /\ faults = SoloFaults
  /\ written = EmptyMap
  /\ lastOp = NoOp
  /\ calc = NoCalc

\* ----------------------------------------------------------------- arrival
\* Requests are numbered in the order they arrive.
NextToArrive(r) == req[r].pc = "new" /\ \A s \in Req : s < r => req[s].pc # "new"

HeadersOf(p) == IF p \in GatedPrograms THEN Headers ELSE {"absent"}

Arrived(r, route, hdr, q) == [req[r] EXCEPT !.route = route, !.hdr = hdr, !.q = q]

\* The middleware chain lets the request reach its route.
Admitted(p, hdr) == p \in GatedPrograms => ApiKeyPasses(apiKey, hdr)

\* API key middleware: res.status(401).json({ error: "unauthorized" })
Unauthorized(r) ==
  /\ NextToArrive(r)
  /\ program \in GatedPrograms
  /\ \E route \in Routes(program), hdr \in Headers :
       /\ ~ApiKeyPasses(apiKey, hdr)
       /\ req' = [req EXCEPT ![r] =
            [Send(Arrived(r, route, hdr, NoQuery), Resp(401, {"error"}, NoValue))
               EXCEPT !.pc = "done"]]
  /\ UNCHANGED <<program, apiKey, now, cache, lastCache, faults, written, lastOp, calc>>

\* GET /health: answers at once, opens nothing.
Health(r) ==
  /\ NextToArrive(r)
  /\ \E hdr \in HeadersOf(program) :
       /\ Admitted(program, hdr)
       /\ req' = [req EXCEPT ![r] =
            [Send(Arrived(r, "health", hdr, NoQuery), Resp(200, {"ok"}, NoValue))
               EXCEPT !.pc = "done"]]
  /\ UNCHANGED <<program, apiKey, now, cache, lastCache, faults, written, lastOp, calc>>

\* POST /cache/clear
CacheClear(r) ==
  /\ NextToArrive(r)
  /\ "cacheClear" \in Routes(program)
  /\ cache' = SimpleCacheClear(cache)
  /\ req' = [req EXCEPT ![r] =
       [Send(Arrived(r, "cacheClear", "absent", NoQuery), Resp(200, {"ok", "message"}, NoValue))
          EXCEPT !.pc = "done"]]
  /\ UNCHANGED <<program, apiKey, now, lastCache, faults, written, lastOp, calc>>

\* A scrapeTopTrending that stores an empty result on a miss, before scraping.
ScrapeTopTrendingStartCachesEarly(rq, c, t) ==
  LET limit == EffectiveLimit(rq.q)
      got == SimpleCacheGet(c, CacheKey(limit), t)
      a == [rq EXCEPT !.limit = limit]
  IN IF ~got.value.null
       THEN [cache |-> got.cache,
             rq |-> [Send([a EXCEPT !.hit = TRUE],
                          Resp(200, {"videos", "metadata"}, got.value))
                       EXCEPT !.pc = "done"]]
       ELSE [cache |-> SimpleCacheSet(got.cache, CacheKey(limit), Result(limit, 0, 0), t),
             rq |-> [a EXCEPT !.pc = "awaitLaunch"]]

\* GET /trending (and /top50 rewritten to it): the limit, then scrapeTopTrending
\* up to its first await: the cache lookup and, on a miss, the launch call.
ScrapeTopTrendingStart(rq, c, t) ==
  LET limit == EffectiveLimit(rq.q)
      got == SimpleCacheGet(c, CacheKey(limit), t)
      a == [rq EXCEPT !.limit = limit]
  IN [cache |-> got.cache,
      rq |-> IF ~got.value.null
               THEN [Send([a EXCEPT !.hit = TRUE],
                          Resp(200, {"videos", "metadata"}, got.value))
                       EXCEPT !.pc = "done"]
               ELSE [a EXCEPT !.pc = "awaitLaunch"]]

TrendingArriveWith(r, q) ==
  /\ NextToArrive(r)
  /\ program \in KeyedPrograms
  /\ \E route \in Routes(program) \cap {"trending", "top50"} :
       LET s == ScrapeTopTrendingStart(
                  Arrived(r, Resolve(program, route), "absent", q), cache, now)
       IN /\ req' = [req EXCEPT ![r] = s.rq]
          /\ cache' = s.cache
  /\ UNCHANGED <<program, apiKey, now, lastCache, faults, written, lastOp, calc>>

\* now - lastCache.ts < TTL_MS && lastCache.data.length
LastCacheHit(lc, t) == t - lc.ts < Ttl /\ lc.data.n # 0

\* legacy GET /top50: the limit, then getTopTrending up to its first await.
GetTopTrendingStart(rq, lc, t) ==
  LET limit == EffectiveLimit(rq.q)
      a == [rq EXCEPT !.limit = limit, !.t0 = t]
  IN IF LastCacheHit(lc, t)
       THEN [Send([a EXCEPT !.hit = TRUE],
                  Resp(200, {"rows"},
                       Result(lc.data.for, lc.data.by, SliceLen(lc.data.n, limit))))
               EXCEPT !.pc = "done"]
       ELSE [a EXCEPT !.pc = "awaitLaunch"]

LegacyTop50ArriveWith(r, q) ==
  /\ NextToArrive(r)
  /\ program = "legacy"
  /\ req' = [req EXCEPT ![r] =
               GetTopTrendingStart(Arrived(r, "top50", "absent", q), lastCache, now)]
  /\ UNCHANGED <<program, apiKey, now, cache, lastCache, faults, written, lastOp, calc>>

TrendingArrive(r) == \E q \in Queries : TrendingArriveWith(r, q)
LegacyTop50Arrive(r) == \E q \in Queries : LegacyTop50ArriveWith(r, q)

\* /debug, /test, /ip, and /top50 of the versions without a cache: the handler
\* calls the launch at once.
DirectArrive(r) ==
  /\ NextToArrive(r)
  /\ \E route \in Routes(program), hdr \in HeadersOf(program) :
       /\ OpensDirectly(program, route)
       /\ Admitted(program, hdr)
       /\ req' = [req EXCEPT ![r] =
            [Arrived(r, route, hdr, NoQuery) EXCEPT !.pc = "awaitLaunch"]]
  /\ UNCHANGED <<program, apiKey, now, cache, lastCache, faults, written, lastOp, calc>>


\* ------------------------------------------------------- opening a browser
\* chromium.launch(...) resolved: a browser process runs; newContext (and the
\* init script, cookies, routes) is awaited next.
LaunchOk(r) ==
  /\ req[r].pc = "awaitLaunch"
  /\ req' = [req EXCEPT ![r].pc = "awaitContext", ![r].open = @ + 1]
  /\ UNCHANGED <<program, apiKey, now, cache, lastCache, faults, written, lastOp, calc>>

\* The catch block of createBrowserContext: wait and retry, or rethrow.  The
\* other versions (newContext, makeContext, the inline launch) have no catch:
\* the rejection goes to the caller.  Neither closes a browser already launched.
OpenFailed(p, rq) ==
  IF p \in KeyedPrograms /\ CanRetry(rq.retries)
    THEN [rq EXCEPT !.pc = "awaitBackoff", !.waits = Append(@, RetryDelay(p, rq.retries))]
    ELSE Throw(p, rq, "open")

\* chromium.launch(...) rejected.
LaunchFail(r) ==
  /\ req[r].pc = "awaitLaunch"
  /\ req' = [req EXCEPT ![r] = OpenFailed(program, req[r])]
  /\ faults > 0
  /\ faults' = faults - 1
  /\ UNCHANGED <<program, apiKey, now, cache, lastCache, written, lastOp, calc>>

\* browser.newContext(...) and the context set-up resolved: the caller holds
\* { browser, context } and awaits context.newPage().
ContextOk(r) ==
  /\ req[r].pc = "awaitContext"
  /\ req' = [req EXCEPT ![r].pc = "awaitPage", ![r].bound = TRUE,
                        ![r].retries = 0, ![r].waits = <<>>]
  /\ UNCHANGED <<program, apiKey, now, cache, lastCache, faults, written, lastOp, calc>>

\* browser.newContext(...) or the context set-up rejected.
ContextFail(r) ==
  /\ req[r].pc = "awaitContext"
  /\ req' = [req EXCEPT ![r] = OpenFailed(program, req[r])]
  /\ faults > 0
  /\ faults' = faults - 1
  /\ UNCHANGED <<program, apiKey, now, cache, lastCache, written, lastOp, calc>>

\* The backoff timer fired: createBrowserContext(retries + 1)
BackoffDone(r) ==
  /\ req[r].pc = "awaitBackoff"
  /\ req' = [req EXCEPT ![r].pc = "awaitLaunch", ![r].retries = @ + 1]
  /\ UNCHANGED <<program, apiKey, now, cache, lastCache, faults, written, lastOp, calc>>

\* ------------------------------------------------------------ page and work
PageOk(r) ==
  /\ req[r].pc = "awaitPage"
  /\ req' = [req EXCEPT ![r].pc = "awaitWork"]
  /\ UNCHANGED <<program, apiKey, now, cache, lastCache, faults, written, lastOp, calc>>

\* context.newPage() rejected.
PageFail(r) ==
  /\ req[r].pc = "awaitPage"
  /\ req' = [req EXCEPT ![r] = Throw(program, req[r], "page")]
  /\ faults > 0
  /\ faults' = faults - 1
  /\ UNCHANGED <<program, apiKey, now, cache, lastCache, written, lastOp, calc>>

\* scrapeTopTrending after getExploreVideos returned `found` videos: filter,
\* sort, slice(0, limit), cache.set, return; the finally block awaits the close.
ScrapeTopTrendingStore(r, found) ==
  /\ req[r].pc = "awaitWork"
  /\ program \in KeyedPrograms
  /\ req[r].route = "trending"
  /\ LET result == Result(req[r].limit, r, SliceLen(found, req[r].limit))
     IN /\ cache' = SimpleCacheSet(cache, CacheKey(req[r].limit), result, now)
        /\ req' = [req EXCEPT ![r].pc = "awaitClose",
                              ![r].pend = Resp(200, {"videos", "metadata"}, result)]
  /\ UNCHANGED <<program, apiKey, now, lastCache, faults, written, lastOp, calc>>

\* legacy getTopTrending after the extraction: sort, filter, slice(0, limit),
\* lastCache = { ts: now, data: top } with the now read at the start.
GetTopTrendingStore(r, found) ==
  /\ req[r].pc = "awaitWork"
  /\ program = "legacy"
  /\ req[r].route = "top50"
  /\ LET top == Result(req[r].limit, r, SliceLen(found, req[r].limit))
     IN /\ lastCache' = [ts |-> req[r].t0, data |-> top]
        /\ req' = [req EXCEPT ![r].pc = "awaitClose", ![r].pend = Resp(200, {"rows"}, top)]
  /\ UNCHANGED <<program, apiKey, now, cache, faults, written, lastOp, calc>>

\* /debug and /test of the keyed versions: res.json(info) inside the try, then
\* the finally block awaits the close.
InfoSentThenClose(r) ==
  /\ req[r].pc = "awaitWork"
  /\ program \in KeyedPrograms
  /\ req[r].route \in {"debug", "test"}
  /\ req' = [req EXCEPT ![r] = [Send(req[r], Resp(200, {"info"}, NoValue)) EXCEPT !.pc = "awaitClose"]]
  /\ UNCHANGED <<program, apiKey, now, cache, lastCache, faults, written, lastOp, calc>>

\* legacy /debug and every browser route of v2 and basic: the close is awaited
\* first and the answer follows it.
WorkThenClose(r) ==
  /\ req[r].pc = "awaitWork"
  /\ \/ program = "legacy" /\ req[r].route = "debug"
     \/ program \in {"v2", "basic"}
  /\ req' = [req EXCEPT ![r].pc = "awaitClose", ![r].pend = Resp(200, {"info"}, NoValue)]
  /\ UNCHANGED <<program, apiKey, now, cache, lastCache, faults, written, lastOp, calc>>

\* The awaited navigation or extraction rejected (a timeout is a rejection).
WorkFail(r) ==
  /\ req[r].pc = "awaitWork"
  /\ WorkCanThrow(program, req[r].route)
  /\ req' = [req EXCEPT ![r] = Throw(program, req[r], "work")]
  /\ faults > 0
  /\ faults' = faults - 1
  /\ UNCHANGED <<program, apiKey, now, cache, lastCache, written, lastOp, calc>>

\* context.close() / browser.close() resolved; the response still owed follows.
Closed(rq) ==
  LET c == [rq EXCEPT !.pc = "done", !.open = @ - 1, !.closes = @ + 1]
  IN IF rq.pend # NoResp THEN Send(c, rq.pend) ELSE c

CloseDone(r) ==
  /\ req[r].pc = "awaitClose"
  /\ req' = [req EXCEPT ![r] = Closed(req[r])]
  /\ UNCHANGED <<program, apiKey, now, cache, lastCache, faults, written, lastOp, calc>>

\* -------------------------------------------------------------------- time
Tick ==
  /\ now < MaxTime
  /\ now' = now + 1
  /\ UNCHANGED <<program, apiKey, cache, lastCache, req, faults, written, lastOp, calc>>

Next ==
  \/ Tick
  \/ \E r \in Req :
       \/ Unauthorized(r)
       \/ Health(r)
       \/ CacheClear(r)
       \/ TrendingArrive(r)
       \/ LegacyTop50Arrive(r)
       \/ DirectArrive(r)
       \/ LaunchOk(r)
       \/ LaunchFail(r)
       \/ ContextOk(r)
       \/ ContextFail(r)
       \/ BackoffDone(r)
       \/ PageOk(r)
       \/ PageFail(r)
       \/ \E found \in 0..MaxFound : ScrapeTopTrendingStore(r, found)
       \/ \E found \in 0..MaxFound : GetTopTrendingStore(r, found)
       \/ InfoSentThenClose(r)
       \/ WorkThenClose(r)
       \/ WorkFail(r)
       \/ CloseDone(r)

Spec == Init /\ [][Next]_vars


\* ------------------------------------------------- SimpleCache on its own
\* The class driven directly: set, get and clear on two keys with two values,
\* while the clock runs.  written and lastOp record what was asked of it.
CacheKeys == {CacheKey(1), CacheKey(LIMIT_DEFAULT)}
CacheValues == {Result(1, 1, 0), Result(1, 2, 1)}

InitCache ==
  /\ program = "mobile"
  /\ apiKey = ""
  /\ now = 0
  /\ cache = EmptyMap
  /\ lastCache = InitLastCache
  /\ req = [r \in Req |-> [NewReq EXCEPT !.pc = "absent"]]
  /\ faults = 0
  /\ written = EmptyMap
  /\ lastOp = NoOp
  /\ calc = NoCalc

CacheSetOp(k, v) ==
  /\ cache' = SimpleCacheSet(cache, k, v, now)
  /\ written' = MapPut(written, k, [value |-> v, at |-> now])
  /\ lastOp' = [op |-> "set", key |-> k, value |-> v, at |-> now]
  /\ UNCHANGED <<program, apiKey, now, lastCache, req, faults, calc>>

CacheGetOp(k) ==
  /\ cache' = SimpleCacheGet(cache, k, now).cache
  /\ lastOp' = [op |-> "get", key |-> k, value |-> SimpleCacheGet(cache, k, now).value,
                at |-> now]
  /\ UNCHANGED <<program, apiKey, now, lastCache, req, faults, written, calc>>

CacheClearOp ==
  /\ cache' = SimpleCacheClear(cache)
  /\ written' = EmptyMap
  /\ lastOp' = [op |-> "clear", key |-> CacheKey(0), value |-> NoValue, at |-> now]
  /\ UNCHANGED <<program, apiKey, now, lastCache, req, faults, calc>>

NextCache ==
  \/ Tick
  \/ \E k \in CacheKeys, v \in CacheValues : CacheSetOp(k, v)
  \/ \E k \in CacheKeys : CacheGetOp(k)
  \/ CacheClearOp

SpecCache == InitCache /\ [][NextCache]_vars

\* ------------------------------------------------ the limit of a request
\* One request to /trending or to the legacy /top50 with any limit parameter
\* of WideQueries: the handler up to its first await.
InitLimit ==
  /\ program \in KeyedPrograms \cup {"legacy"}
  /\ apiKey = ""
  /\ now = 0
  /\ cache = EmptyMap
  /\ lastCache = InitLastCache
  /\ req = [r \in Req |-> IF r = 1 THEN NewReq ELSE [NewReq EXCEPT !.pc = "absent"]]
  /\ faults = 0
  /\ written = EmptyMap
  /\ lastOp = NoOp
  /\ calc = NoCalc

NextLimit ==
  \E q \in WideQueries :
    \/ TrendingArriveWith(1, q)
    \/ LegacyTop50ArriveWith(1, q)

SpecLimit == InitLimit /\ [][NextLimit]_vars


\* =========================================================== video records
\* A canonical video record as the mappers build it.  video_id 0 stands for a
\* missing (undefined or empty) id.  `seen` is the place of the record in the
\* order of discovery.  published_at is kept as its distance to now, in
\* minutes (negative: in the future); dated = FALSE stands for null.  A record
\* that went through the scoring map carries score (in thousandths) and
\* hours_since_post (in tenths).
Video(id, source, seen, likes, comments, shares, views, dated, age) ==
  [video_id |-> id, source |-> source, seen |-> seen,
   likes |-> likes, comments |-> comments, shares |-> shares, views |-> views,
   dated |-> dated, age |-> age,
   scored |-> FALSE, score |-> 0, hours_since_post |-> 0]

\* r?.video_id, video.video_id: truthy
HasId(r) == r.video_id # 0

\* One hour of (now - published_at): 3_600_000 ms, here in minutes.
HourMinutes == 60

\* The sources by strategy: structured state, network intercept, DOM scrape.
StructuredSources == {"SIGI", "JSON_extraction"}
InterceptSources == {"API_intercept"}
DomSources == {"DOM_extraction", "profile_extraction"}

\* ------------------------------------------------------------ Array methods
\* Array.prototype.filter
RECURSIVE SelectIdx(_, _)
SelectIdx(n, keep) ==
  IF n = 0 THEN <<>>
  ELSE IF n \in keep THEN Append(SelectIdx(n - 1, keep), n) ELSE SelectIdx(n - 1, keep)

\* The elements of s at the indices of keep, in the order of s.
FilterIdx(s, keep) ==
  LET idx == SelectIdx(Len(s), keep) IN [k \in 1..Len(idx) |-> s[idx[k]]]

\* Array.prototype.slice(0, limit)
SliceSeq(s, limit) == SubSeq(s, 1, SliceLen(Len(s), limit))

\* A sort that leaves the records as they stand.
ArraySortDescNone(s, key) == s

\* Array.prototype.sort((a, b) => key(b) - key(a)): descending by key, and
\* stable (ECMAScript 2019, Node 18): records with equal keys keep their order.
\* key[i] is the key of s[i].
ArraySortDesc(s, key) ==
  LET n == Len(s)
      pos == [i \in 1..n |->
                1 + Cardinality({j \in 1..n : key[j] > key[i] \/ (key[j] = key[i] /\ j < i)})]
      at == [k \in 1..n |-> CHOOSE i \in 1..n : pos[i] = k]
  IN [k \in 1..n |-> s[at[k]]]

\* ---------------------------------------------------- recency and scoring
TOP_N == 50
HOURS_NARROW == 24
HOURS_WIDE == 48
SCORE_RATIO_WEIGHT == 250
SCORE_DECIMALS_UNIT == 1000
HOURS_DECIMALS_UNIT == 10

\* A filter that lets a record without published_at through.
WithinHoursOrUndated(r, h) == ~r.dated \/ r.age <= h * HourMinutes

\* withinHours(iso, h): iso && now - new Date(iso).getTime() <= h * 3600 * 1000
WithinHours(r, h) == r.dated /\ r.age <= h * HourMinutes

WithinIdx(items, h) == {i \in 1..Len(items) : WithinHours(items[i], h)}

\* A pool that widens already when exactly TOP_N records are within 24 hours.
RecentWidensAtTarget(items) ==
  LET narrow == FilterIdx(items, WithinIdx(items, HOURS_NARROW))
  IN IF Len(narrow) <= TOP_N THEN FilterIdx(items, WithinIdx(items, HOURS_WIDE)) ELSE narrow

\* let recent = 24h filter; if (recent.length < 50) recent = 48h filter
Recent(items) ==
  LET narrow == FilterIdx(items, WithinIdx(items, HOURS_NARROW))
  IN IF Len(narrow) < TOP_N THEN FilterIdx(items, WithinIdx(items, HOURS_WIDE)) ELSE narrow

\* x.toFixed(d) of the quotient num / den >= 0: the nearest multiple of the
\* unit, the larger one of two that are equally near; in units.
ToFixed(num, den, unit) ==
  unit * (num \div den) + (2 * unit * (num % den) + den) \div (2 * den)

\* Interactions without the weights of comments and shares.
InteractionsUnweighted(r) == r.likes + r.comments + r.shares

\* (r.likes||0) + 2*(r.comments||0) + 3*(r.shares||0)
Interactions(r) == r.likes + 2 * r.comments + 3 * r.shares

\* Math.max(1, (now - published_at) / 3_600_000), as a numerator over HourMinutes
HoursNum(r) == Max(HourMinutes, r.age)

\* Math.max(1, r.views || 0)
ViewsFloor(r) == Max(1, r.views)

\* perHour + er * 1000 * 0.25 = interactions / hours + 250 * interactions / views,
\* as one fraction ScoreNum / ScoreDen.
ScoreNum(r) ==
  Interactions(r) * HourMinutes * ViewsFloor(r)
    + SCORE_RATIO_WEIGHT * Interactions(r) * HoursNum(r)
ScoreDen(r) == HoursNum(r) * ViewsFloor(r)

\* { ...r, score: Number(score.toFixed(3)), hours_since_post: Number(hours.toFixed(1)) }
Scored(r) ==
  [r EXCEPT !.scored = TRUE,
            !.score = ToFixed(ScoreNum(r), ScoreDen(r), SCORE_DECIMALS_UNIT),
            !.hours_since_post = ToFixed(HoursNum(r), HourMinutes, HOURS_DECIMALS_UNIT)]

\* b.likes + b.comments + b.shares
RawEngagement(r) == r.likes + r.comments + r.shares

\* likes + comments + shares + (views || 0) / d, times d
WeightedEngagement(r, d) == d * RawEngagement(r) + r.views

ScoreOf(r) == r.score
Ids(s) == {s[i].video_id : i \in 1..Len(s)}

\* The tail of getTrendingTop50: the recency filter, the scoring map, the sort
\* by score, the first 50, and the filler from all items by raw engagement.
\* [recent, top]
RankTop50(items) ==
  LET recent == Recent(items)
      scored == [i \in 1..Len(recent) |-> Scored(recent[i])]
      sorted == ArraySortDesc(scored, [i \in 1..Len(scored) |-> ScoreOf(scored[i])])
      top == SliceSeq(sorted, TOP_N)
      rest == FilterIdx(items, {i \in 1..Len(items) : items[i].video_id \notin Ids(top)})
      filler == SliceSeq(ArraySortDesc(rest, [i \in 1..Len(rest) |-> RawEngagement(rest[i])]), TOP_N - Len(top))
  IN [recent |-> recent,
      top |-> IF Len(top) < TOP_N THEN top \o filler ELSE top]

VIEWS_DIVISOR_KEYED == 100
VIEWS_DIVISOR_LEGACY == 20
KeyedEngagement(r) == WeightedEngagement(r, VIEWS_DIVISOR_KEYED)
LegacyEngagement(r) == WeightedEngagement(r, VIEWS_DIVISOR_LEGACY)

\* scrapeTopTrending of the mobile and improved versions:
\* videos.filter(video => video && video.video_url && video.video_id).sort(...).slice(0, limit)
RankByEngagement(videos, limit) ==
  LET kept == FilterIdx(videos, {i \in 1..Len(videos) : HasId(videos[i])})
  IN SliceSeq(ArraySortDesc(kept, [i \in 1..Len(kept) |-> KeyedEngagement(kept[i])]), limit)

\* legacy getTopTrending: rows.sort(...); rows.filter(r => r && r.video_url).slice(0, limit)
RankLegacy(rows, limit) == SliceSeq(ArraySortDesc(rows, [i \in 1..Len(rows) |-> LegacyEngagement(rows[i])]), limit)

\* What each version returns for the merged list of records it has found.
\* [recent, top]: the recency pool (where there is one) and the list returned.
Rank(p, items, limit) ==
  CASE p \in {"v2", "basic"} -> RankTop50(items)
    [] p \in {"mobile", "improved"} -> [recent |-> <<>>, top |-> RankByEngagement(items, limit)]
    [] p = "tested" -> [recent |-> <<>>, top |-> SliceSeq(items, limit)]
    [] p = "legacy" -> [recent |-> <<>>, top |-> RankLegacy(items, limit)]


\* ------------------------------------------------- the ranking on its own
\* The merged records handed to the ranking are drawn from two families.
\* Short lists: up to MaxItems records, record number i with video_id i and
\* any of the shapes below.  Long lists: around TOP_N records, so that the
\* 24-hour pool reaches the target and the first 50 are cut.
MaxItems == 3
MaxSpare == 2

\* likes, comments, shares, views, dated, age in minutes
Shapes ==
  { <<10, 0, 0, 100, TRUE, 120>>,    \* two hours old
    <<0, 0, 4, 100, TRUE, 120>>,     \* fewer raw interactions, more weighted ones
    <<1, 0, 0, 0, TRUE, 30>>,        \* younger than one hour, never viewed
    <<1, 0, 0, 3, TRUE, 180>>,       \* a score with no exact three decimals
    <<2, 1, 0, 10, TRUE, 0 - 60>>,   \* published in the future
    <<5, 0, 0, 50, FALSE, 0>>,       \* no published_at
    <<3, 0, 0, 30, TRUE, 1500>>,     \* 25 hours old
    <<7, 0, 0, 70, TRUE, 3000>>,     \* 50 hours old
    <<4, 0, 0, 40, TRUE, 1440>> }    \* exactly 24 hours old

Shaped(id, sh) == Video(id, "SIGI", id, sh[1], sh[2], sh[3], sh[4], sh[5], sh[6])

ShortLists ==
  UNION { { [i \in 1..n |-> Shaped(i, f[i])] : f \in [1..n -> Shapes] } : n \in 0..MaxItems }

\* n24 records two hours old with likes 0, 1, 2, 0, 1, ..., then n48 records 25
\* hours old, then nNone records without published_at, then nOld records 50
\* hours old.
LongList(n24, n48, nNone, nOld) ==
  [i \in 1..(n24 + n48 + nNone + nOld) |->
     IF i <= n24 THEN Video(i, "SIGI", i, i % 3, 0, 0, 100, TRUE, 120)
     ELSE IF i <= n24 + n48 THEN Video(i, "SIGI", i, 3, 0, 0, 30, TRUE, 1500)
     ELSE IF i <= n24 + n48 + nNone THEN Video(i, "SIGI", i, 5, 0, 0, 50, FALSE, 0)
     ELSE Video(i, "SIGI", i, 7, 0, 0, 70, TRUE, 3000)]

LongLists ==
  { LongList(n24, n48, nNone, nOld) :
      n24 \in (TOP_N - MaxSpare)..(TOP_N + MaxSpare), n48 \in 0..MaxSpare,
      nNone \in 0..1, nOld \in 0..1 }

\* The limit a request hands to the ranking: the versions with a fixed list
\* of 50 take none.
RankLimits(p) ==
  IF p \in {"v2", "basic"} THEN {TOP_N}
  ELSE {EffectiveLimit(q) : q \in Queries} \cup {MaxItems - 1}

RankInputs(p) ==
  { [fn |-> "rank", items |-> items, limit |-> limit, done |-> FALSE,
     recent |-> <<>>, top |-> <<>>] :
      items \in ShortLists \cup (IF p \in {"v2", "basic"} THEN LongLists ELSE {}),
      limit \in RankLimits(p) }

\* The server at rest, while a pure function is under test.
ServerAtRest ==
  /\ apiKey = ""
  /\ now = 0
  /\ cache = EmptyMap
  /\ lastCache = InitLastCache
  /\ req = [r \in Req |-> [NewReq EXCEPT !.pc = "absent"]]
  /\ faults = 0
  /\ written = EmptyMap
  /\ lastOp = NoOp

InitRank ==
  /\ program \in Programs
  /\ ServerAtRest
  /\ calc \in RankInputs(program)

\* The ranking is applied to the merged records.
RankRun ==
  /\ calc.fn = "rank"
  /\ ~calc.done
  /\ LET ranked == Rank(program, calc.items, calc.limit)
     IN calc' = [calc EXCEPT !.done = TRUE, !.recent = ranked.recent, !.top = ranked.top]
  /\ UNCHANGED <<program, apiKey, now, cache, lastCache, req, faults, written, lastOp>>

NextRank == RankRun

SpecRank == InitRank /\ [][NextRank]_vars


\* ------------------------------------------------------- the ranking twice
\* The results Array.prototype.sort may give: ECMAScript fixes the order of
\* the elements the comparator tells apart and, since the sort is stable,
\* that of those it does not.  Here every arrangement the rules allow is an
\* outcome, and the ranking is run twice on the same records with the same now.
Arrangements(n) == {p \in [1..n -> 1..n] : \A i, j \in 1..n : i # j => p[i] # p[j]}

\* A sort that is free to order the elements with equal keys.
ArraySortOutcomesUnstable(s, key) ==
  { [k \in 1..Len(s) |-> s[p[k]]] :
      p \in {q \in Arrangements(Len(s)) :
               \A k \in 1..(Len(s) - 1) : key[q[k]] >= key[q[k + 1]]} }

ArraySortOutcomes(s, key) ==
  { [k \in 1..Len(s) |-> s[p[k]]] :
      p \in {q \in Arrangements(Len(s)) :
               \A k \in 1..(Len(s) - 1) :
                 \/ key[q[k]] > key[q[k + 1]]
                 \/ (key[q[k]] = key[q[k + 1]] /\ q[k] < q[k + 1])} }

\* The lists getTrendingTop50 may return for these items.
RankTop50Outcomes(items) ==
  LET recent == Recent(items)
      scored == [i \in 1..Len(recent) |-> Scored(recent[i])]
      Rest(top) == FilterIdx(items, {i \in 1..Len(items) : items[i].video_id \notin Ids(top)})
  IN UNION {
       LET top == SliceSeq(sorted, TOP_N)
       IN IF Len(top) < TOP_N
            THEN { top \o SliceSeq(f, TOP_N - Len(top)) :
                     f \in ArraySortOutcomes(Rest(top), [i \in 1..Len(Rest(top)) |-> RawEngagement(Rest(top)[i])]) }
            ELSE {top}
       : sorted \in ArraySortOutcomes(scored, [i \in 1..Len(scored) |-> ScoreOf(scored[i])]) }

\* The lists each version may return for these records.
RankOutcomes(p, items, limit) ==
  CASE p \in {"v2", "basic"} -> RankTop50Outcomes(items)
    [] p \in {"mobile", "improved"} ->
         LET kept == FilterIdx(items, {i \in 1..Len(items) : HasId(items[i])})
         IN {SliceSeq(o, limit) : o \in ArraySortOutcomes(kept, [i \in 1..Len(kept) |-> KeyedEngagement(kept[i])])}
    [] p = "tested" -> {SliceSeq(items, limit)}
    [] p = "legacy" ->
         {SliceSeq(o, limit) : o \in ArraySortOutcomes(items, [i \in 1..Len(items) |-> LegacyEngagement(items[i])])}

TwiceInputs(p) ==
  { [fn |-> "twice", items |-> items, limit |-> limit, runs |-> <<>>] :
      items \in ShortLists, limit \in RankLimits(p) }

InitTwice ==
  /\ program \in Programs
  /\ ServerAtRest
  /\ calc \in TwiceInputs(program)

\* One more run of the ranking on the same records.
RankAgain ==
  /\ calc.fn = "twice"
  /\ Len(calc.runs) < 2
  /\ \E out \in RankOutcomes(program, calc.items, calc.limit) :
       calc' = [calc EXCEPT !.runs = Append(@, out)]
  /\ UNCHANGED <<program, apiKey, now, cache, lastCache, req, faults, written, lastOp>>

NextTwice == RankAgain

SpecTwice == InitTwice /\ [][NextTwice]_vars


\* ---------------------------------------------------- collecting the videos
\* What TikTok serves is the input: for each URL a page that cannot be
\* reached, a challenge page, or a page with a structured state (the items of
\* its ItemModule), anchors to videos and intercepted API responses, before
\* and after scrolling; and what the video pages give when visited.
MaxPages == 3

MOBILE_URLS == 6
MOBILE_PROFILES == 4
MOBILE_FEW == 5
MOBILE_ENOUGH == 20

Hot == <<10, 0, 0, 100, TRUE, 120>>
Cold == <<1, 0, 0, 3, TRUE, 180>>
Warm == <<7, 0, 0, 70, TRUE, 60>>

Page(reach, state, anchors, grown, grownAnchors, api) ==
  [reach |-> reach, state |-> state, anchors |-> anchors,
   grown |-> grown, grownAnchors |-> grownAnchors, api |-> api, grownApi |-> api]

\* The page whose intercepted responses are grownApi once it has been scrolled.
Grows(page, grownApi) == [page EXCEPT !.grownApi = grownApi]

Still(state, anchors, api) == Page("ok", state, anchors, state, anchors, api)

Unreachable == Page("fail", <<>>, <<>>, <<>>, <<>>, <<>>)

Pool ==
  { Unreachable,
    Page("challenge", <<>>, <<>>, <<>>, <<>>, <<>>),
    Still(<<>>, <<>>, <<>>),
    Still(<< <<1, Hot>>, <<2, Cold>> >>, <<1, 1, 2>>, <<>>),
    Still(<< <<2, Hot>>, <<3, Cold>> >>, <<>>, <<>>),
    Still(<<>>, <<1, 1, 3>>, <<>>),
    Page("ok", <<>>, <<1>>, << <<1, Hot>>, <<4, Cold>> >>, <<1, 4, 4>>, <<>>),
    Still(<<>>, <<>>, << << <<1, Hot>>, <<2, Cold>>, <<3, Cold>> >>,
                         << <<3, Hot>>, <<4, Cold>>, <<5, Cold>> >> >>) }

\* A page with as many videos as one URL has to give for the others to be left out.
Full == Still([i \in 1..MOBILE_ENOUGH |-> <<i, Cold>>], <<1, 2>>, <<>>)

\* A page with as many anchors, several to each of a few videos.
Doubled == Still(<<>>, [i \in 1..MOBILE_ENOUGH |-> 1 + (i % (MaxItems + 1))], <<>>)

\* The pages of n URLs: any of the pool, or one of the two large pages first
\* and then one page of the pool for all the others.
PagesOf(n) ==
  [1..n -> Pool] \cup
  { [i \in 1..n |-> IF i = 1 THEN big ELSE t] : big \in {Full, Doubled}, t \in Pool }

\* The record a mapper makes of an item of the state or of an API response.
Mapped(item, source) ==
  Video(item[1], source, 0, item[2][1], item[2][2], item[2][3], item[2][4],
        item[2][5], item[2][6])

FromState(items, source) == [i \in 1..Len(items) |-> Mapped(items[i], source)]

\* extractFromDOM: one record for each anchor, no counters, published now.
ExtractFromDOM(anchors) ==
  [i \in 1..Len(anchors) |-> Video(anchors[i], "DOM_extraction", 0, 0, 0, 0, 0, TRUE, 0)]

\* extractFromProfile: extractViews and extractHashtags are not defined in the
\* page the function is evaluated in, so every anchor is skipped by the catch.
ExtractFromProfile(anchors) == <<>>

RECURSIVE Concat(_)
Concat(ss) == IF Len(ss) = 0 THEN <<>> ELSE Head(ss) \o Concat(Tail(ss))

\* extractFromAPIResponses: the records of every response, one after another.
ExtractFromAPIResponses(api) ==
  Concat([i \in 1..Len(api) |-> FromState(api[i], "API_intercept")])

\* The place of each record in the order of discovery.
Stamp(s) == [i \in 1..Len(s) |-> [s[i] EXCEPT !.seen = i]]

\* self.findIndex(v => v.video_id === video.video_id) === index
UniqueFirst(s) ==
  FilterIdx(s, {i \in 1..Len(s) : \A j \in 1..(i - 1) : s[j].video_id # s[i].video_id})

\* A dedup that keeps every record.
MapLastWinsKeepsAll(s) == s

\* new Map(entries), map.set(id, r): an id stands where it was first set and
\* holds the record set last.
MapLastWins(s) ==
  LET withId == FilterIdx(s, {i \in 1..Len(s) : HasId(s[i])})
      firsts == UniqueFirst(withId)
      lasts == {i \in 1..Len(withId) :
                  \A j \in (i + 1)..Len(withId) : withId[j].video_id # withId[i].video_id}
  IN [k \in 1..Len(firsts) |->
        withId[CHOOSE i \in lasts : withId[i].video_id = firsts[k].video_id]]

\* [...new Set(links)]
UniqueLinks(links) ==
  FilterIdx(links, {i \in 1..Len(links) : \A j \in 1..(i - 1) : links[j] # links[i]})

\* extractFromVideoPage: the record of the video page, or null.
VisitAll(links, visit) ==
  IF visit = "none" THEN <<>>
  ELSE [i \in 1..Len(links) |-> Video(links[i], "SIGI", 0, Warm[1], Warm[2], Warm[3], Warm[4], Warm[5], Warm[6])]

\* Video pages are visited size at a time, until after a batch the records
\* got, with those held before, are need or more.
RECURSIVE VisitInBatches(_, _, _, _, _, _, _)
VisitInBatches(links, visit, from, size, got, held, need) ==
  IF from > Len(links) THEN got
  ELSE LET chunk == SubSeq(links, from, Min(from + size - 1, Len(links)))
           more == got \o VisitAll(chunk, visit)
       IN IF held + Len(more) >= need THEN more
          ELSE VisitInBatches(links, visit, from + size, size, more, held, need)

Collected(threw, found, items) == [threw |-> threw, found |-> found, items |-> items]
Thrown == Collected(TRUE, <<>>, <<>>)

\* One extraction strategy run on a page, and the videos it returned.
Try(by, videos) == [by |-> by, videos |-> videos]

\* if (videos.length === 0) stands before every strategy but the first: the
\* strategies run one after another up to the first that returns videos.
RanUntilSome(tries) ==
  LET some == {i \in 1..Len(tries) : Len(tries[i].videos) > 0}
  IN SubSeq(tries, 1, IF some = {} THEN Len(tries)
                      ELSE CHOOSE i \in some : \A j \in some : i <= j)

Last(s) == s[Len(s)]

\* if (scrollVideos.length > videos.length) videos = scrollVideos
Longer(kept, more) == IF Len(more.videos) > Len(kept.videos) THEN more ELSE kept

RECURSIVE Longest(_, _)
Longest(kept, rerun) ==
  IF Len(rerun) = 0 THEN kept ELSE Longest(Longer(kept, Head(rerun)), Tail(rerun))

\* The visit of one URL: how it ended ("error": the navigation failed and the
\* error was caught, "thrown": it failed and nothing caught it, "challenge":
\* a challenge was detected, "done"), the strategies run before scrolling,
\* those run again after it, and the videos kept with the strategy they are of.
Visit(ended, ran, rerun, kept) ==
  [ended |-> ended, ran |-> ran, rerun |-> rerun, videos |-> kept.videos, by |-> kept.by]

NoVisit(ended) == Visit(ended, <<>>, <<>>, Try("none", <<>>))

\* ---- src/server.js 291-1059

\* One URL of TIKTOK_URLS in getExploreVideos of src/server.js 708-790.
MobileVisit(page, u) ==
  IF page.reach = "fail" THEN NoVisit("error")
  ELSE IF page.reach \in {"challenge", "captcha"} THEN NoVisit("challenge")
  ELSE LET profile == u <= MOBILE_PROFILES
           ran == RanUntilSome(
                    (IF profile THEN <<Try("profile", ExtractFromProfile(page.anchors))>>
                     ELSE <<>>)
                    \o <<Try("json", FromState(page.state, "JSON_extraction")),
                         Try("dom", ExtractFromDOM(page.anchors))>>)
           rerun == IF Len(Last(ran).videos) >= MOBILE_FEW THEN <<>>
                    ELSE IF profile THEN <<Try("profile", ExtractFromProfile(page.grownAnchors))>>
                    ELSE <<Try("json", FromState(page.grown, "JSON_extraction"))>>
       IN Visit("done", ran, rerun, Longest(Last(ran), rerun))

\* The videos of one URL of TIKTOK_URLS; an error is caught and a challenge skipped.
MobileVideos(page, u) == MobileVisit(page, u).videos

\* One navigation of a scrape: the URL gone to, by its number in the list,
\* and the videos held once it has been dealt with.
Step(url, all) == [url |-> url, all |-> all]

\* if (allVideos.length >= 20) break
MobileStops(videos, all) == Len(videos) > 0 /\ Len(all) >= MOBILE_ENOUGH

\* for (const url of TIKTOK_URLS): the URLs gone to from number u on, with
\* allVideos after each.
RECURSIVE MobileTrail(_, _, _)
MobileTrail(served, u, all) ==
  IF u > MOBILE_URLS THEN <<>>
  ELSE LET videos == MobileVideos(served[u], u)
           more == all \o videos
       IN <<Step(u, more)>> \o
          (IF MobileStops(videos, more) THEN <<>> ELSE MobileTrail(served, u + 1, more))

MobileAll(served, u, all) == Last(MobileTrail(served, u, all)).all

\* getExploreVideos of src/server.js 704-798
MobileCollect(served) ==
  LET all == Stamp(MobileAll(served, 1, <<>>))
  IN Collected(FALSE, all, UniqueFirst(all))

\* ---- src/unnamed/part_001
TESTED_FEW == 10
PATCH_URLS == 3
PATCH_FEW == 10
PATCH_ENOUGH == 5

\* getExploreVideos of part_001 285-320: page.goto stands outside any try.
TestedVisit(page) ==
  IF page.reach = "fail" THEN NoVisit("thrown")
  ELSE LET ran == RanUntilSome(<<Try("json", FromState(page.state, "JSON_extraction")),
                                 Try("dom", ExtractFromDOM(page.anchors))>>)
           scrollVideos == Try("json", FromState(page.grown, "JSON_extraction"))
           domVideos == Try("dom", ExtractFromDOM(page.grownAnchors))
           rerun == IF Len(Last(ran).videos) >= TESTED_FEW THEN <<>>
                    ELSE IF Len(scrollVideos.videos) > Len(Last(ran).videos)
                      THEN <<scrollVideos>>
                    ELSE <<scrollVideos, domVideos>>
       IN Visit("done", ran, rerun, Longest(Last(ran), rerun))

TestedCollect(page) ==
  LET videos == TestedVisit(page).videos
  IN IF TestedVisit(page).ended = "thrown" THEN Thrown
     ELSE Collected(FALSE, Stamp(videos), Stamp(videos))

\* The videos of one URL of the getExploreVideos of part_001 576-652.
PatchVisit(page) ==
  IF page.reach = "fail" THEN NoVisit("error")
  ELSE IF page.reach = "challenge" THEN NoVisit("challenge")
  ELSE LET ran == RanUntilSome(<<Try("api", ExtractFromAPIResponses(page.api)),
                                 Try("json", FromState(page.state, "JSON_extraction")),
                                 Try("dom", ExtractFromDOM(page.anchors))>>)
           rerun == IF Len(Last(ran).videos) >= PATCH_FEW THEN <<>>
                    ELSE <<Try("api", ExtractFromAPIResponses(page.grownApi))>>
       IN Visit("done", ran, rerun, Longest(Last(ran), rerun))

PatchVideos(page) == PatchVisit(page).videos

\* for (const url of urls): the URLs gone to from number u on, with the
\* videos of each; the first URL with PATCH_ENOUGH videos ends the loop.
RECURSIVE PatchTrail(_, _)
PatchTrail(served, u) ==
  IF u > PATCH_URLS THEN <<>>
  ELSE <<Step(u, PatchVideos(served[u]))>> \o
       (IF Len(PatchVideos(served[u])) >= PATCH_ENOUGH THEN <<>>
        ELSE PatchTrail(served, u + 1))

\* return videos of the URL that ended the loop, or return [] after the last.
PatchFirst(served, u) ==
  LET videos == Last(PatchTrail(served, u)).all
  IN IF Len(videos) >= PATCH_ENOUGH THEN videos ELSE <<>>

PatchCollect(served) ==
  Collected(FALSE, Stamp(PatchFirst(served, 1)), Stamp(PatchFirst(served, 1)))

\* ---- src/unnamed/part_003
\* getExploreVideos of part_003 317-346, called with limit * 2.
ImprovedVisit(page, limit) ==
  IF page.reach = "fail" THEN NoVisit("thrown")
  ELSE LET ran == <<Try("json", FromState(page.state, "JSON_extraction"))>>
           rerun == IF Len(Last(ran).videos) >= limit * 2 THEN <<>>
                    ELSE <<Try("json", FromState(page.grown, "JSON_extraction"))>>
       IN Visit("done", ran, rerun, Last(ran \o rerun))

ImprovedCollect(page, limit) ==
  LET videos == ImprovedVisit(page, limit).videos
  IN IF ImprovedVisit(page, limit).ended = "thrown" THEN Thrown
     ELSE Collected(FALSE, Stamp(videos), Stamp(videos))

\* ---- src/unnamed/part_000
V2_URLS == 5
V2_NEED == 100
V2_POOL == 4

RECURSIVE V2Harvest(_, _, _, _)
V2Harvest(served, u, rows, links) ==
  IF u > V2_URLS THEN [rows |-> rows, links |-> links]
  ELSE IF served[u].reach = "fail" THEN V2Harvest(served, u + 1, rows, links)
  ELSE V2Harvest(served, u + 1, rows \o FromState(served[u].grown, "SIGI"),
                 links \o UniqueLinks(served[u].grownAnchors))

\* getTrendingTop50 of part_000 128-158
V2Collect(served, visit) ==
  LET h == V2Harvest(served, 1, <<>>, <<>>)
      rows == Stamp(h.rows)
      byId == MapLastWins(rows)
      links == UniqueLinks(h.links)
      toVisit == SliceSeq(FilterIdx(links, {i \in 1..Len(links) : links[i] \notin Ids(byId)}), V2_NEED)
      collected == VisitInBatches(toVisit, visit, 1, V2_POOL, <<>>, Len(byId), V2_NEED)
      found == Stamp(h.rows \o collected)
      late == SubSeq(found, Len(rows) + 1, Len(found))
      added == UniqueFirst(FilterIdx(late, {i \in 1..Len(late) : late[i].video_id \notin Ids(byId)}))
  IN Collected(FALSE, found, byId \o added)

\* ---- src/unnamed/part_002
BASIC_FEW == 20
BASIC_NEED == 80

\* getTrendingTop50 of part_002 134-158: page.goto stands outside any try.
BasicCollect(served, visit) ==
  LET one == served[1]
      rows1 == FromState(one.grown, "SIGI")
      links1 == UniqueLinks(one.grownAnchors)
      again == Len(rows1) < BASIC_FEW /\ Len(links1) < BASIC_FEW
      two == served[2]
      rows2 == FromState(two.grown, "SIGI")
      rows == IF again /\ Len(rows2) > Len(rows1) THEN rows2 ELSE rows1
      links == IF again THEN UniqueLinks(links1 \o UniqueLinks(two.grownAnchors)) ELSE links1
      collected == VisitInBatches(SliceSeq(links, BASIC_NEED), visit, 1, 1, <<>>, 0, BASIC_NEED)
      found == Stamp(rows \o collected)
  IN IF one.reach = "fail" \/ (again /\ two.reach = "fail") THEN Thrown
     ELSE IF Len(rows) < BASIC_NEED /\ Len(links) > 0
            THEN Collected(FALSE, found, MapLastWins(found))
          ELSE Collected(FALSE, Stamp(rows), Stamp(rows))

\* ---- src/server.js 1-289
LEGACY_BATCH == 6
LEGACY_LINKS == 120

\* getTopTrending of src/server.js 201-231: the try has no catch.
LegacyCollect(page, visit, limit) ==
  LET rows == FromState(page.grown, "SIGI")
      links == SliceSeq(UniqueLinks(page.grownAnchors), LEGACY_LINKS)
      metas == VisitInBatches(links, visit, 1, LEGACY_BATCH, <<>>, 0, limit * 2)
      found == IF Len(rows) > 0 THEN Stamp(rows) ELSE Stamp(metas)
  IN IF page.reach = "fail" THEN Thrown ELSE Collected(FALSE, found, found)

\* The navigations of part_000 (every entry point, whatever it gives), of
\* part_002 (explore, then discover when explore gave few rows and few
\* links) and of src/server.js 1-289 (explore, and explore again in
\* getExploreVideoLinks when the state gave no rows).
HarvestTrail(p, served) ==
  LET rows(u) == IF served[u].reach = "fail" THEN <<>> ELSE FromState(served[u].grown, "SIGI")
      links(u) == IF served[u].reach = "fail" THEN <<>> ELSE UniqueLinks(served[u].grownAnchors)
  IN CASE p = "v2" ->
            [u \in 1..V2_URLS |-> Step(u, Concat([v \in 1..u |-> rows(v)]))]
       [] p = "basic" ->
            IF served[1].reach # "fail" /\ Len(rows(1)) < BASIC_FEW /\ Len(links(1)) < BASIC_FEW
              THEN <<Step(1, rows(1)),
                     Step(2, IF Len(rows(2)) > Len(rows(1)) THEN rows(2) ELSE rows(1))>>
            ELSE <<Step(1, rows(1))>>
       [] p = "legacy" ->
            IF served[1].reach # "fail" /\ Len(rows(1)) = 0
              THEN <<Step(1, <<>>), Step(1, <<>>)>>
            ELSE <<Step(1, rows(1))>>

Navigations(p, patched, served, limit) ==
  CASE p = "mobile" -> MobileTrail(served, 1, <<>>)
    [] p = "tested" -> IF patched THEN PatchTrail(served, 1)
                       ELSE <<Step(1, TestedVisit(served[1]).videos)>>
    [] p = "improved" -> <<Step(1, ImprovedVisit(served[1], limit).videos)>>
    [] p \in {"v2", "basic", "legacy"} -> HarvestTrail(p, served)

RECURSIVE TriedTwice(_, _)
TriedTwice(trail, served) ==
  IF Len(trail) = 0 THEN <<>>
  ELSE (IF served[Head(trail).url].reach = "fail" THEN <<Head(trail), Head(trail)>>
        ELSE <<Head(trail)>>) \o TriedTwice(Tail(trail), served)

\* A scrape that goes a second time to a URL it could not reach.
TrailWithRetry(p, patched, served, limit) ==
  TriedTwice(Navigations(p, patched, served, limit), served)

\* The navigations of one scrape, in the order they are made: no catch block
\* and no challenge test goes back to the URL it is on.
Trail(p, patched, served, limit) == Navigations(p, patched, served, limit)

\* The URLs a version tries.
UrlCount(p, patched) ==
  CASE p = "mobile" -> MOBILE_URLS
    [] p = "v2" -> V2_URLS
    [] p = "basic" -> 2
    [] p = "tested" -> IF patched THEN PATCH_URLS ELSE 1
    [] p \in {"improved", "legacy"} -> 1

Collect(p, patched, served, visit, limit) ==
  CASE p = "mobile" -> MobileCollect(served)
    [] p = "tested" -> IF patched THEN PatchCollect(served) ELSE TestedCollect(served[1])
    [] p = "improved" -> ImprovedCollect(served[1], limit)
    [] p = "v2" -> V2Collect(served, visit)
    [] p = "basic" -> BasicCollect(served, visit)
    [] p = "legacy" -> LegacyCollect(served[1], visit, limit)

\* metadata.returned
Returned(p, items, top, limit) ==
  IF p = "tested" THEN Min(Len(items), limit) ELSE Len(top)

\* The limit a request hands to the scrape.
MergeLimits(p) ==
  IF p \in {"v2", "basic"} THEN {TOP_N} ELSE {EffectiveLimit(q) : q \in Queries}

\* The scrape: collect, then rank.  The first Len(pages) URLs from number
\* calc.from on are served as the input says, the others cannot be reached.
MergeInputsOf(p, patched) ==
  { [fn |-> "merge", pages |-> pages, from |-> from, visit |-> visit, limit |-> limit,
     patched |-> patched, done |-> FALSE, threw |-> FALSE,
     found |-> <<>>, items |-> <<>>, top |-> <<>>, returned |-> 0,
     went |-> <<>>, tally |-> <<>>] :
      pages \in PagesOf(Min(UrlCount(p, patched), MaxPages)),
      from \in {1, Max(1, UrlCount(p, FALSE) - MaxPages + 1)},
      visit \in (IF p \in {"v2", "basic", "legacy"} THEN {"none", "record"} ELSE {"none"}),
      limit \in MergeLimits(p) }

MergeInputs(p) ==
  UNION {MergeInputsOf(p, patched) : patched \in (IF p = "tested" THEN BOOLEAN ELSE {FALSE})}

InitMerge ==
  /\ program \in Programs
  /\ ServerAtRest
  /\ calc \in MergeInputs(program)

\* What each URL of the list gives in the scrape of input c.
ServedTo(p, c) ==
  [u \in 1..UrlCount(p, c.patched) |->
     IF u \in c.from..(c.from + Len(c.pages) - 1) THEN c.pages[u - c.from + 1]
     ELSE Unreachable]

\* went: the URLs navigated to, in order; tally: the distinct video ids held
\* after each.
ScrapeRun ==
  /\ calc.fn = "merge"
  /\ ~calc.done
  /\ LET served == ServedTo(program, calc)
         c == Collect(program, calc.patched, served, calc.visit, calc.limit)
         top == IF c.threw THEN <<>> ELSE Rank(program, c.items, calc.limit).top
         trail == Trail(program, calc.patched, served, calc.limit)
     IN calc' = [calc EXCEPT !.done = TRUE, !.threw = c.threw, !.found = c.found,
                             !.items = c.items, !.top = top,
                             !.returned = Returned(program, c.items, top, calc.limit),
                             !.went = [i \in 1..Len(trail) |-> trail[i].url],
                             !.tally = [i \in 1..Len(trail) |->
                                          Cardinality(Ids(trail[i].all))]]
  /\ UNCHANGED <<program, apiKey, now, cache, lastCache, req, faults, written, lastOp>>

NextMerge == ScrapeRun

SpecMerge == InitMerge /\ [][NextMerge]_vars


\* ---------------------------------------------------------- visiting one URL
\* harvestLinks of part_000 89-115, loadExploreLike of part_002 101-132 and
\* getTopTrending of src/server.js 204-211 scroll first and read the state
\* once; only part_000 catches a navigation that fails.
HarvestVisit(p, page) ==
  IF page.reach = "fail" THEN NoVisit(IF p = "v2" THEN "error" ELSE "thrown")
  ELSE Visit("done", <<Try("json", FromState(page.grown, "SIGI"))>>, <<>>,
             Try("json", FromState(page.grown, "SIGI")))

\* What a version does with URL number u of its list.
VisitOf(p, patched, page, u, limit) ==
  CASE p = "mobile" -> MobileVisit(page, u)
    [] p = "tested" -> IF patched THEN PatchVisit(page) ELSE TestedVisit(page)
    [] p = "improved" -> ImprovedVisit(page, limit)
    [] p \in {"v2", "basic", "legacy"} -> HarvestVisit(p, page)

\* n items of a state or of an API response, numbered from id from.
Items(from, n) == [i \in 1..n |-> <<from + i - 1, Cold>>]

\* The pages one URL may give: reached or not; with a title or a URL that
\* holds a challenge keyword ("challenge": the title, "captcha": the URL
\* only); with no, few or many items, anchors and intercepted responses, and
\* after scrolling the same, more or none.
Served ==
  { Unreachable } \cup
  { Grows(Page(reach, state, anchors, grown, grownAnchors, api), api \o more) :
      reach \in {"ok", "challenge", "captcha"},
      state \in {Items(1, 0), Items(1, MaxItems - 1), Items(1, TESTED_FEW)},
      anchors \in {<<>>, <<1, 1, 3>>},
      grown \in {Items(1, 0), Items(1, MaxItems - 1), Items(1, MaxItems)},
      grownAnchors \in {<<>>, <<1, 1, 3>>, <<1, 1, 3, 4, 5>>},
      api \in {<<>>, <<Items(1, MaxItems)>>},
      more \in {<<>>, <<Items(MaxItems + 1, MaxItems)>>} }

PageInputs(p) ==
  { [fn |-> "page", page |-> page, u |-> u, limit |-> limit, patched |-> patched,
     done |-> FALSE, visit |-> NoVisit("none")] :
      page \in Served,
      u \in (IF p = "mobile" THEN {1, MOBILE_URLS} ELSE {1}),
      limit \in (IF p = "improved" THEN MergeLimits(p) ELSE {TOP_N}),
      patched \in (IF p = "tested" THEN BOOLEAN ELSE {FALSE}) }

InitPage ==
  /\ program \in Programs
  /\ ServerAtRest
  /\ calc \in PageInputs(program)

\* The body of the loop over the URLs, once.
VisitRun ==
  /\ calc.fn = "page"
  /\ ~calc.done
  /\ calc' = [calc EXCEPT !.done = TRUE,
                          !.visit = VisitOf(program, calc.patched, calc.page, calc.u, calc.limit)]
  /\ UNCHANGED <<program, apiKey, now, cache, lastCache, req, faults, written, lastOp>>

NextPage == VisitRun

SpecPage == InitPage /\ [][NextPage]_vars


\* ------------------------------------------------------------- the mappers
\* A field of a raw item: not there, null, or a number.  An id is not there
\* or is the number given.
Missing == [kind |-> "missing", val |-> 0]
Null == [kind |-> "null", val |-> 0]
Num(n) == [kind |-> "num", val |-> n]

RawCounts == {Missing, Null} \cup {Num(n) : n \in {0 - 1, 0, 5}}
RawIds(n) == {Missing, Num(n)}

\* An item of ItemModule: id, and stats with playCount, diggCount,
\* commentCount, shareCount; stats itself may not be there.
StateItems ==
  { [id |-> id, stats |-> TRUE, playCount |-> v, diggCount |-> l,
     commentCount |-> c, shareCount |-> h] :
      id \in RawIds(7), v \in RawCounts, l \in RawCounts, c \in RawCounts, h \in RawCounts }
  \cup
  { [id |-> id, stats |-> FALSE, playCount |-> Missing, diggCount |-> Missing,
     commentCount |-> Missing, shareCount |-> Missing] : id \in RawIds(7) }

\* An item of an API response: aweme_id, item_id, id, and statistics with
\* play_count, view_count, digg_count, like_count, comment_count, share_count.
ApiItems ==
  { [aweme_id |-> a, item_id |-> i, id |-> d, play_count |-> p, view_count |-> v,
     digg_count |-> g, like_count |-> l, comment_count |-> c, share_count |-> h] :
      a \in RawIds(7), i \in RawIds(8), d \in RawIds(9),
      p \in RawCounts, v \in RawCounts, g \in RawCounts, l \in RawCounts,
      c \in {Missing, Num(0), Num(5)}, h \in {Missing, Num(0 - 1), Num(5)} }

\* x is truthy
Truthy(x) == x.kind = "num" /\ x.val # 0

\* A default that marks the unknown counter with -1.
NullishMinusOne(x) == IF x.kind = "num" THEN x.val ELSE 0 - 1

\* x ?? 0
NullishZero(x) == IF x.kind = "num" THEN x.val ELSE 0

\* x || 0
OrZero(x) == IF Truthy(x) THEN x.val ELSE 0

\* x || y || 0
OrOrZero(x, y) == IF Truthy(x) THEN x.val ELSE OrZero(y)

MappedRecord(id, views, likes, comments, shares) ==
  [video_id |-> id, views |-> views, likes |-> likes, comments |-> comments,
   shares |-> shares]

\* video_id: v.id (undefined, here 0, when there is none)
IdOf(x) == IF x.kind = "num" THEN x.val ELSE 0

\* mapFromSIGI of the legacy version, part_000 and part_002, and mapVideoData
\* of part_003: v.stats?.playCount ?? 0
MapNullish(item) ==
  MappedRecord(IdOf(item.id), NullishZero(item.playCount), NullishZero(item.diggCount),
               NullishZero(item.commentCount), NullishZero(item.shareCount))

\* mapVideoData of the mobile version and part_001: item.stats?.playCount || 0
MapVideoData(item) ==
  MappedRecord(IdOf(item.id), OrZero(item.playCount), OrZero(item.diggCount),
               OrZero(item.commentCount), OrZero(item.shareCount))

\* mapAPIVideoData: item.aweme_id || item.item_id || item.id || ''
MapAPIVideoData(item) ==
  MappedRecord(IF Truthy(item.aweme_id) THEN item.aweme_id.val ELSE OrOrZero(item.item_id, item.id),
               OrOrZero(item.play_count, item.view_count),
               OrOrZero(item.digg_count, item.like_count),
               OrZero(item.comment_count), OrZero(item.share_count))

\* The mapper a version runs on an item of the given kind.
MapItem(p, kind, item) ==
  CASE kind = "api" -> MapAPIVideoData(item)
    [] kind = "state" /\ p \in {"mobile", "tested"} -> MapVideoData(item)
    [] kind = "state" /\ p \notin {"mobile", "tested"} -> MapNullish(item)

NoRecord == MappedRecord(0, 0, 0, 0, 0)

MapInputs(p) ==
  { [fn |-> "map", kind |-> "state", item |-> item, done |-> FALSE, record |-> NoRecord] :
      item \in StateItems }
  \cup
  { [fn |-> "map", kind |-> "api", item |-> item, done |-> FALSE, record |-> NoRecord] :
      item \in IF p = "tested" THEN ApiItems ELSE {} }

InitMap ==
  /\ program \in Programs
  /\ ServerAtRest
  /\ calc \in MapInputs(program)

MapRun ==
  /\ calc.fn = "map"
  /\ ~calc.done
  /\ calc' = [calc EXCEPT !.done = TRUE, !.record = MapItem(program, calc.kind, calc.item)]
  /\ UNCHANGED <<program, apiKey, now, cache, lastCache, req, faults, written, lastOp>>

NextMap == MapRun

SpecMap == InitMap /\ [][NextMap]_vars

\* ---- a batch of raw items
MaxBatch == 3

\* A raw item of a batch: one that maps ("ok", with its id), null, or one
\* with a malformed nested structure (a desc that is not a string, a
\* createTime that is not a date).
Raw(shape, id) == [shape |-> shape, id |-> id]

RawItems == {Raw("ok", 1), Raw("ok", 2), Raw("null", 0), Raw("malformed", 0)}

\* item.id of null, text.match of a desc that is not a string and
\* toISOString of an invalid date throw a TypeError or a RangeError.
Throws(raw) == raw.shape # "ok"

\* The item of the given kind that has the id and nothing else.
Plain(kind, id) ==
  IF kind = "api"
    THEN [aweme_id |-> Num(id), item_id |-> Missing, id |-> Missing, play_count |-> Missing,
          view_count |-> Missing, digg_count |-> Missing, like_count |-> Missing,
          comment_count |-> Missing, share_count |-> Missing]
  ELSE [id |-> Num(id), stats |-> FALSE, playCount |-> Missing, diggCount |-> Missing,
        commentCount |-> Missing, shareCount |-> Missing]

Mapping(threw, out) == [threw |-> threw, out |-> out]

\* items.map(item => { try { return {...} } catch (e) { return null } })
\* .filter(Boolean), and the try around mapAPIVideoData(item) in the loop of
\* extractFromAPIResponses.
MapGuarded(p, kind, items) ==
  LET kept == FilterIdx(items, {i \in 1..Len(items) : ~Throws(items[i])})
  IN Mapping(FALSE, [k \in 1..Len(kept) |-> MapItem(p, kind, Plain(kind, kept[k].id))])

\* items.map(v => ({...})): what an item throws leaves the mapper.
MapBare(p, kind, items) ==
  IF \E i \in 1..Len(items) : Throws(items[i]) THEN Mapping(TRUE, <<>>)
  ELSE Mapping(FALSE, [k \in 1..Len(items) |-> MapItem(p, kind, Plain(kind, items[k].id))])

\* mapFromSIGI (src/server.js 127-151, part_000, part_002) has no try;
\* mapVideoData and extractFromAPIResponses have one for each item.
MapBatch(p, kind, items) ==
  IF kind = "state" /\ p \in {"legacy", "v2", "basic"} THEN MapBare(p, kind, items)
  ELSE MapGuarded(p, kind, items)

BatchInputs(p) ==
  { [fn |-> "batch", kind |-> kind, items |-> items, done |-> FALSE, threw |-> FALSE,
     out |-> <<>>] :
      kind \in (IF p = "tested" THEN {"state", "api"} ELSE {"state"}),
      items \in UNION {[1..n -> RawItems] : n \in 0..MaxBatch} }

InitBatch ==
  /\ program \in Programs
  /\ ServerAtRest
  /\ calc \in BatchInputs(program)

BatchRun ==
  /\ calc.fn = "batch"
  /\ ~calc.done
  /\ calc' = [calc EXCEPT !.done = TRUE,
                          !.threw = MapBatch(program, calc.kind, calc.items).threw,
                          !.out = MapBatch(program, calc.kind, calc.items).out]
  /\ UNCHANGED <<program, apiKey, now, cache, lastCache, req, faults, written, lastOp>>

NextBatch == BatchRun

SpecBatch == InitBatch /\ [][NextBatch]_vars

\* ---- where a mapper takes its items from
\* The candidate collections a mapper looks at, in the order it does:
\* state.ItemModule, state.itemModule, state.props.pageProps.itemModule,
\* state.items; and the videoPaths of an API response.
Candidates(p, kind) ==
  CASE kind = "api" -> <<"itemList", "item_list", "aweme_list", "data", "items", "list",
                         "feed", "recommend_list">>
    [] kind = "state" /\ p \in {"mobile", "tested"} -> <<"ItemModule", "itemModule">>
    [] kind = "state" /\ p = "improved" ->
         <<"ItemModule", "props.pageProps.itemModule", "items">>
    [] kind = "state" /\ p \in {"legacy", "v2", "basic"} -> <<"ItemModule">>

\* A candidate is not there, is there with nothing in it ({} or []), or holds
\* items: candidate k holds the ids 10k+1 .. 10k+n.
Holds(k, n) == [i \in 1..n |-> 10 * k + i]

Fill == {"absent", "empty", "some"}

ItemsAt(fill, k) == IF fill[k] = "some" THEN Holds(k, MaxFound) ELSE <<>>

\* if (state.ItemModule) ... else if (state.itemModule) ...: an object or an
\* array that is there is truthy, also with nothing in it.
FirstPresent(fill) ==
  LET there == {k \in 1..Len(fill) : fill[k] # "absent"}
  IN IF there = {} THEN 0 ELSE CHOOSE k \in there : \A j \in there : k <= j

\* if (Array.isArray(path) && path.length > 0) { ...; break }
FirstNonEmptyArray(fill) ==
  LET full == {k \in 1..Len(fill) : fill[k] = "some"}
  IN IF full = {} THEN 0 ELSE CHOOSE k \in full : \A j \in full : k <= j

\* The candidate a mapper takes its items from, 0 when it takes none.
PickedFrom(p, kind, fill) ==
  IF kind = "api" THEN FirstNonEmptyArray(fill) ELSE FirstPresent(fill)

\* The ids of the items the mapper goes through.
PickedItems(p, kind, fill) ==
  LET k == PickedFrom(p, kind, fill)
  IN IF k = 0 THEN <<>> ELSE ItemsAt(fill, k)

PickInputs(p) ==
  { [fn |-> "pick", kind |-> kind, fill |-> fill, done |-> FALSE, items |-> <<>>] :
      kind \in {"state"},
      fill \in [1..Len(Candidates(p, "state")) -> Fill] }
  \cup
  { [fn |-> "pick", kind |-> kind, fill |-> fill, done |-> FALSE, items |-> <<>>] :
      kind \in (IF p = "tested" THEN {"api"} ELSE {}),
      fill \in [1..Len(Candidates(p, "api")) -> Fill] }

InitPick ==
  /\ program \in Programs
  /\ ServerAtRest
  /\ calc \in PickInputs(program)

\* The head of mapVideoData and mapFromSIGI, and the loop over videoPaths.
PickRun ==
  /\ calc.fn = "pick"
  /\ ~calc.done
  /\ calc' = [calc EXCEPT !.done = TRUE,
                          !.items = PickedItems(program, calc.kind, calc.fill)]
  /\ UNCHANGED <<program, apiKey, now, cache, lastCache, req, faults, written, lastOp>>

NextPick == PickRun

SpecPick == InitPick /\ [][NextPick]_vars

\* ----------------------------------------------- the pages of the videos
\* The enrichment: the links are gone through a batch at a time, every link
\* of a batch by a call of extractFromVideoPage, the calls of one batch
\* running together under Promise.all.
MaxLinks == 7

\* The versions that open the pages of the videos.
Enrichers == {"legacy", "v2", "basic"}

\* batchSize = 6, pool = 4; part_002 awaits one call after the other.
BatchWidth(p) ==
  CASE p = "legacy" -> LEGACY_BATCH
    [] p = "v2" -> V2_POOL
    [] p = "basic" -> 1

\* metas.length >= limit * 2, byId.size + collected.length >= need,
\* collected.length >= need
EnrichNeed(p, limit) ==
  CASE p = "legacy" -> limit * 2
    [] p = "v2" -> V2_NEED
    [] p = "basic" -> BASIC_NEED

\* The batch link number i is in.
BatchOf(p, i) == (i + BatchWidth(p) - 1) \div BatchWidth(p)

\* A call of extractFromVideoPage is "idle" before it is made, "called" while
\* context.newPage() is awaited, "open" while the page loads and is read,
\* "record", "null" or "caught" while page.close() is awaited in the finally,
\* "gotRecord" or "gotNull" once it has returned, and "rejected" when
\* context.newPage() has thrown.
Settled == {"gotRecord", "gotNull"}
Finishing == {"record", "null", "caught"}

EnrichInputs(p) ==
  { [fn |-> "enrich", links |-> n, limit |-> limit, pages |-> [i \in 1..n |-> "idle"],
     open |-> {}, batch |-> 0, metas |-> 0, ended |-> "running"] :
      n \in {0, MaxLinks},
      limit \in (IF p = "legacy" THEN {1, LIMIT_DEFAULT} ELSE {TOP_N}) }

InitEnrich ==
  /\ program \in Enrichers
  /\ ServerAtRest
  /\ calc \in EnrichInputs(program)

\* Promise.all(chunk.map(...)) has resolved (or no batch was started yet):
\* the records are pushed, the loop breaks when there are enough or no link is
\* left, and else the calls of the next batch are made.
BatchTurn ==
  /\ calc.fn = "enrich"
  /\ calc.ended = "running"
  /\ \A i \in 1..calc.links : BatchOf(program, i) <= calc.batch => calc.pages[i] \in Settled
  /\ LET metas == Cardinality({i \in 1..calc.links : calc.pages[i] = "gotRecord"})
         left == {i \in 1..calc.links : BatchOf(program, i) = calc.batch + 1}
         enough == calc.batch > 0 /\ metas >= EnrichNeed(program, calc.limit)
     IN calc' = IF left = {} \/ enough
                  THEN [calc EXCEPT !.metas = metas, !.ended = "done"]
                ELSE [calc EXCEPT !.metas = metas, !.batch = calc.batch + 1,
                                  !.pages = [i \in 1..calc.links |->
                                               IF i \in left THEN "called" ELSE calc.pages[i]]]
  /\ UNCHANGED <<program, apiKey, now, cache, lastCache, req, faults, written, lastOp>>

\* const page = await context.newPage()
PageOpened(i) ==
  /\ calc.fn = "enrich"
  /\ calc.pages[i] = "called"
  /\ calc' = [calc EXCEPT !.pages[i] = "open", !.open = calc.open \cup {i}]
  /\ UNCHANGED <<program, apiKey, now, cache, lastCache, req, faults, written, lastOp>>

\* context.newPage() throws, outside the try: the call rejects, Promise.all
\* rejects and the scrape is left; the other calls of the batch run on.
PageRefused(i) ==
  /\ calc.fn = "enrich"
  /\ calc.pages[i] = "called"
  /\ calc' = [calc EXCEPT !.pages[i] = "rejected",
                          !.ended = IF calc.ended = "running" THEN "thrown" ELSE calc.ended]
  /\ UNCHANGED <<program, apiKey, now, cache, lastCache, req, faults, written, lastOp>>

\* The body of the try ends: with a record, with null, or in the catch.
PageWorked(i, how) ==
  /\ calc.fn = "enrich"
  /\ calc.pages[i] = "open"
  /\ calc' = [calc EXCEPT !.pages[i] = how]
  /\ UNCHANGED <<program, apiKey, now, cache, lastCache, req, faults, written, lastOp>>

\* A call that returns and leaves its page open.
LeftOpenOnReturn(open, i) == open

\* The page is closed when the call returns.
ClosedOnReturn(open, i) == open \ {i}

\* finally { await page.close().catch(() => {}) }, and the call returns.
PageClosed(i) ==
  /\ calc.fn = "enrich"
  /\ calc.pages[i] \in Finishing
  /\ calc' = [calc EXCEPT !.pages[i] = IF calc.pages[i] = "record" THEN "gotRecord" ELSE "gotNull",
                          !.open = ClosedOnReturn(calc.open, i)]
  /\ UNCHANGED <<program, apiKey, now, cache, lastCache, req, faults, written, lastOp>>

NextEnrich ==
  \/ BatchTurn
  \/ \E i \in 1..MaxLinks :
        /\ calc.fn = "enrich"
        /\ i <= calc.links
        /\ \/ PageOpened(i)
           \/ PageRefused(i)
           \/ \E how \in Finishing : PageWorked(i, how)
           \/ PageClosed(i)

SpecEnrich == InitEnrich /\ [][NextEnrich]_vars


\* --------------------------------------------------------- the rate limiter
\* part_003 80-114: a Map from the IP of a client to the times (Date.now(), in
\* milliseconds) of its requests that were let through.
RATE_LIMIT_WINDOW == 60000
RATE_LIMIT_MAX == 10

\* The clients, and the number of requests the second one makes at most.
Ips == {"ip1", "ip2"}
MaxOther == 1
\* The clock moves MaxMoves times, by one millisecond or by one short of the
\* window.
MaxMoves == 2
Moves == {1, RATE_LIMIT_WINDOW - 1}

\* A limit that lets one more through: > for >=.
OverMax(n) == n > RATE_LIMIT_MAX

\* if (requests.length >= RATE_LIMIT_MAX) return false
AtMax(n) == n >= RATE_LIMIT_MAX

\* .filter(time => time > windowStart), windowStart = now - RATE_LIMIT_WINDOW
InWindow(times, t) ==
  FilterIdx(times, {i \in 1..Len(times) : times[i] > t - RATE_LIMIT_WINDOW})

\* checkRateLimit(ip) at time t: what it returns and the Map it leaves.
CheckRateLimit(limiter, ip, t) ==
  LET had == IF ip \in DOMAIN limiter THEN limiter[ip] ELSE <<>>
      requests == InWindow(had, t)
  IN IF AtMax(Len(requests))
       THEN [ok |-> FALSE, limiter |-> MapPut(limiter, ip, requests)]
       ELSE [ok |-> TRUE, limiter |-> MapPut(limiter, ip, Append(requests, t))]

\* let: the times of all the requests of each client that went on to next(),
\* which the program does not keep.  last: the last request and its answer.
InitRate ==
  /\ program = "improved"
  /\ ServerAtRest
  /\ calc = [fn |-> "rate", clock |-> 0, moves |-> 0, limiter |-> <<>>,
             let |-> [ip \in Ips |-> <<>>], asked |-> 0,
             last |-> [ip |-> "none", status |-> 0, at |-> 0]]

\* The middleware, for a request of ip.
RateArrive(ip) ==
  /\ calc.fn = "rate"
  /\ ip = "ip2" => calc.asked < MaxOther
  /\ LET c == CheckRateLimit(calc.limiter, ip, calc.clock)
     IN calc' = [calc EXCEPT
                   !.limiter = c.limiter,
                   !.let = IF c.ok THEN [@ EXCEPT ![ip] = Append(@, calc.clock)] ELSE @,
                   !.asked = IF ip = "ip2" THEN @ + 1 ELSE @,
                   !.last = [ip |-> ip, status |-> IF c.ok THEN 200 ELSE 429,
                             at |-> calc.clock]]
  /\ UNCHANGED <<program, apiKey, now, cache, lastCache, req, faults, written, lastOp>>

RateClock ==
  /\ calc.fn = "rate"
  /\ calc.moves < MaxMoves
  /\ \E by \in Moves : calc' = [calc EXCEPT !.clock = @ + by, !.moves = @ + 1]
  /\ UNCHANGED <<program, apiKey, now, cache, lastCache, req, faults, written, lastOp>>

NextRate ==
  \/ RateClock
  \/ \E ip \in Ips : RateArrive(ip)

SpecRate == InitRate /\ [][NextRate]_vars


\* -------------------------------------------------------------- hashtags
\* A caption is a sequence of characters: the hash sign, an ASCII letter, a
\* letter outside ASCII (written "E" here), a digit, the underscore, the space
\* and the backslash.
MaxText == 4

Hash == "#"
Backslash == "\\"
Space == " "
Chars == {Hash, "w", "E", "1", "_", Space, Backslash}

\* [\p{L}\p{N}_] with the u flag, and \w
UnicodeWord == {"w", "E", "1", "_"}
AsciiWord == {"w", "1", "_"}

\* A regular expression lead+: the characters of lead, then one or more of more.
Regex(lead, more) == [lead |-> lead, more |-> more]

\* /#[\p{L}\p{N}_]+/gu, /#\w+/g and, as part_002 writes it, /#\\w+/g: a hash
\* sign, a backslash and one or more letters w.
HashtagRegex(p) ==
  CASE p \in {"legacy", "mobile", "tested", "improved"} -> Regex(<<Hash>>, UnicodeWord)
    [] p = "v2" -> Regex(<<Hash>>, AsciiWord)
    [] p = "basic" -> Regex(<<Hash, Backslash>>, {"w"})

HASHTAG_CAP == 10
HASHTAG_CAP_TOP50 == 8

HashtagCap(p) == IF p \in {"v2", "basic"} THEN HASHTAG_CAP_TOP50 ELSE HASHTAG_CAP

\* The last index of the run of characters of more that starts at j (j - 1
\* when there is none).
RECURSIVE RunEnd(_, _, _)
RunEnd(text, j, more) ==
  IF j <= Len(text) /\ text[j] \in more THEN RunEnd(text, j + 1, more) ELSE j - 1

\* The end of the match that starts at i, 0 when none starts there.
MatchEnd(text, i, re) ==
  LET n == Len(re.lead)
      e == RunEnd(text, i + n, re.more)
  IN IF i + n - 1 <= Len(text) /\ SubSeq(text, i, i + n - 1) = re.lead /\ e >= i + n
       THEN e ELSE 0

\* A match that leaves the hash sign out of the token.
TokenWithoutHash(text, i, e) == SubSeq(text, i + 1, e)

\* The matched substring.
Token(text, i, e) == SubSeq(text, i, e)

\* text.match(re) with the g flag: the matches from left to right, each as
\* long as it can be, the next one sought after the end of the last.
RECURSIVE MatchAll(_, _, _)
MatchAll(text, i, re) ==
  LET starts == {j \in i..Len(text) : MatchEnd(text, j, re) # 0}
      first == CHOOSE j \in starts : \A k \in starts : j <= k
  IN IF starts = {} THEN <<>>
     ELSE <<Token(text, first, MatchEnd(text, first, re))>>
          \o MatchAll(text, MatchEnd(text, first, re) + 1, re)

\* [...new Set(m)]
NewSet(m) == UniqueLinks(m)

\* extractHashtags, pickHashTags: [...new Set(text.match(re) || [])].slice(0, cap)
ExtractHashtags(p, text) ==
  IF Len(text) = 0 THEN <<>>
  ELSE SliceSeq(NewSet(MatchAll(text, 1, HashtagRegex(p))), HashtagCap(p))

\* tags.join(" ")
RECURSIVE JoinSpace(_)
JoinSpace(tags) ==
  IF Len(tags) = 0 THEN <<>>
  ELSE IF Len(tags) = 1 THEN tags[1]
  ELSE tags[1] \o <<Space>> \o JoinSpace(Tail(tags))

\* The captions: every text of up to MaxText characters, and long ones made of
\* n tags of 1, 2, ..., n letters, closed or not by the first tag once more.
RECURSIVE LongCaption(_, _)
LongCaption(n, lead) ==
  IF n = 0 THEN <<>>
  ELSE LongCaption(n - 1, lead) \o lead \o [k \in 1..n |-> "w"] \o <<Space>>

Captions ==
  UNION {[1..n -> Chars] : n \in 0..MaxText}
  \cup { LongCaption(n, lead) \o (IF once THEN lead \o <<"w">> ELSE <<>>) :
           n \in (HASHTAG_CAP_TOP50 - 1)..(HASHTAG_CAP + MaxSpare),
           lead \in {<<Hash>>, <<Hash, Backslash>>},
           once \in BOOLEAN }

TagInputs == { [fn |-> "tags", text |-> t, stage |-> 0, tags |-> <<>>, again |-> <<>>] : t \in Captions }

InitTags ==
  /\ program \in Programs
  /\ ServerAtRest
  /\ calc \in TagInputs

\* hashtags: extractHashtags(item.desc || "")
ExtractRun ==
  /\ calc.fn = "tags"
  /\ calc.stage = 0
  /\ calc' = [calc EXCEPT !.stage = 1, !.tags = ExtractHashtags(program, calc.text)]
  /\ UNCHANGED <<program, apiKey, now, cache, lastCache, req, faults, written, lastOp>>

\* extractHashtags(tags.join(" "))
ExtractAgain ==
  /\ calc.fn = "tags"
  /\ calc.stage = 1
  /\ calc' = [calc EXCEPT !.stage = 2, !.again = ExtractHashtags(program, JoinSpace(calc.tags))]
  /\ UNCHANGED <<program, apiKey, now, cache, lastCache, req, faults, written, lastOp>>

NextTags == ExtractRun \/ ExtractAgain

SpecTags == InitTags /\ [][NextTags]_vars


\* ================================================================== claims
Ended(rq) == rq.pc \in {"done", "escaped"}
Arrival(r) == req[r].pc = "new" /\ req'[r].pc # "new"
CachedRoute(rq) == rq.route \in {"trending", "top50"} /\ program \in KeyedPrograms \cup {"legacy"}

\* C1: at the end of every operation that opened a browser, on every exit path,
\* each browser launched for it has been closed, and closed exactly once: no
\* request ends with a browser still open.
C1_BrowserClosedOnEveryExit ==
  \A r \in Req :
    Ended(req[r]) =>
      /\ req[r].open = 0
      /\ req[r].closes <= 1

\* C2: SimpleCache round trip.  A get(k) that follows a set(k, v) made at time
\* t, with no set of k and no clear in between, returns v when it is made at a
\* time t' with t' - t <= ttl, and null when t' - t > ttl.
C2_CacheRoundTrip ==
  (lastOp.op = "get" /\ lastOp.key \in DOMAIN written) =>
    LET w == written[lastOp.key]
    IN lastOp.value = (IF lastOp.at - w.at <= Ttl THEN w.value ELSE NoValue)

\* C2 witness: a get made after the ttl of the last set of its key has elapsed
\* returned null.
C2_Witness ==
  /\ lastOp.op = "get"
  /\ lastOp.key \in DOMAIN written
  /\ lastOp.at - written[lastOp.key].at > Ttl
  /\ lastOp.value = NoValue

\* C3: requests with different limits never share a cache entry: a response
\* that carries a result carries one that was computed for the limit of its
\* own request.
C3_NoSharingAcrossLimits ==
  \A r \in Req :
    (req[r].resp.status = 200 /\ ~req[r].resp.result.null) =>
      req[r].resp.result.for = req[r].limit


\* A live entry for the limit of the request: what a lookup at time t finds.
LiveEntry(c, limit, t) == CacheKey(limit) \in DOMAIN c /\ ~(t > c[CacheKey(limit)].expires)
LiveLastCache(lc, t) == t - lc.ts < Ttl

\* One step of the server, as it may touch the stored results: an entry (or
\* lastCache) changes only where a scrape that has not thrown completes, and
\* then holds its result; a throw changes nothing stored; a request that
\* finds nothing live for its limit launches a browser.
C4_Step ==
  /\ \A k \in DOMAIN cache' :
       (k \notin DOMAIN cache \/ cache'[k] # cache[k]) =>
         \E r \in Req :
           /\ req[r].pc = "awaitWork" /\ req'[r].pc = "awaitClose"
           /\ ~req'[r].failed
           /\ k = CacheKey(req[r].limit)
           /\ cache'[k].value = req'[r].pend.result
           /\ cache'[k].value.by = r
  /\ lastCache' # lastCache =>
       \E r \in Req :
         /\ req[r].pc = "awaitWork" /\ req'[r].pc = "awaitClose"
         /\ ~req'[r].failed
         /\ lastCache'.data = req'[r].pend.result
  /\ \A r \in Req :
       (~req[r].failed /\ req'[r].failed) => (cache' = cache /\ lastCache' = lastCache)
  /\ \A r \in Req :
       (/\ Arrival(r)
        /\ CachedRoute(req'[r])
        /\ IF program = "legacy" THEN ~LiveLastCache(lastCache, now)
           ELSE ~LiveEntry(cache, req'[r].limit, now))
         => req'[r].pc = "awaitLaunch"

\* C4: a cache entry is written only by the step in which a scrape completes
\* without having thrown, and it holds that scrape's result; the step in which
\* a scrape throws leaves the cache (and lastCache) as it was; and a request
\* that finds no live entry for its limit starts a new scrape.
C4_CacheWrittenOnlyOnSuccess == [][C4_Step]_vars

\* C4 witness: the scrape of one /trending request has thrown and was answered
\* 500, the cache holds nothing, and a request with the same limit is
\* launching a browser for a new scrape.
C4_Witness ==
  \E r, s \in Req :
    /\ r # s
    /\ req[r].route = "trending" /\ req[r].failed /\ req[r].pc = "done"
    /\ req[r].resp.status = 500
    /\ cache = EmptyMap
    /\ req[s].route = "trending" /\ req[s].limit = req[r].limit
    /\ req[s].pc = "awaitLaunch"

\* The response was built from the stored result `stored`.
ServedFrom(rq, stored) ==
  /\ rq.hit
  /\ rq.pc = "done"
  /\ rq.open = 0
  /\ rq.resp.status = 200
  /\ rq.resp.result.by = stored.by
  /\ rq.resp.result.for = stored.for

\* An arriving request for limit L that finds a live stored result for L is
\* answered from it and opens no browser, whatever the stored result holds.
C5_Original_Step ==
  \A r \in Req :
    (Arrival(r) /\ CachedRoute(req'[r])) =>
      /\ (program \in KeyedPrograms /\ LiveEntry(cache, req'[r].limit, now)) =>
           ServedFrom(req'[r], cache[CacheKey(req'[r].limit)].value)
      /\ (/\ program = "legacy"
          /\ LiveLastCache(lastCache, now)
          /\ lastCache.data.for = req'[r].limit) =>
           ServedFrom(req'[r], lastCache.data)

C5_Amended_Step ==
  \A r \in Req :
    (Arrival(r) /\ CachedRoute(req'[r])) =>
      /\ (program \in KeyedPrograms /\ LiveEntry(cache, req'[r].limit, now)) =>
           /\ ServedFrom(req'[r], cache[CacheKey(req'[r].limit)].value)
           /\ req'[r].resp.result = cache[CacheKey(req'[r].limit)].value
           /\ cache' = cache
      /\ (program = "legacy" /\ LiveLastCache(lastCache, now) /\ lastCache.data.n # 0) =>
           /\ ServedFrom(req'[r], lastCache.data)
           /\ req'[r].resp.result.n = SliceLen(lastCache.data.n, req'[r].limit)
      /\ (program = "legacy" /\ LiveLastCache(lastCache, now) /\ lastCache.data.n = 0) =>
           /\ ~req'[r].hit
           /\ req'[r].pc = "awaitLaunch"

InCreate(rq) == program \in KeyedPrograms /\ rq.pc \in {"awaitLaunch", "awaitContext", "awaitBackoff"}

\* What is left of createBrowserContext at most: three awaits per attempt.
Measure(rq) ==
  3 * (MAX_RETRIES - rq.retries)
    + (CASE rq.pc = "awaitLaunch" -> 3 [] rq.pc = "awaitContext" -> 2 [] OTHER -> 1)

C6_Inv ==
  \A r \in Req :
    InCreate(req[r]) =>
      /\ req[r].retries \in 0..MAX_RETRIES
      /\ Len(req[r].waits) = req[r].retries + (IF req[r].pc = "awaitBackoff" THEN 1 ELSE 0)
      /\ \A k \in 1..Len(req[r].waits) : req[r].waits[k] = RetryBase(program) * k
      /\ Measure(req[r]) >= 1

C6_Step ==
  \A r \in Req :
    (InCreate(req[r]) /\ req'[r] # req[r]) =>
      \* the attempt succeeded: its session is returned at once
      \/ /\ req[r].pc = "awaitContext" /\ req'[r].pc = "awaitPage"
         /\ req'[r].bound /\ req'[r].open = req[r].open
      \* createBrowserContext goes on, and has less left to do
      \/ /\ InCreate(req'[r])
         /\ Measure(req'[r]) < Measure(req[r])
         /\ req'[r].pc = "awaitBackoff" => req[r].retries < MAX_RETRIES
      \* the last attempt failed: the error reaches the caller
      \/ /\ req[r].pc \in {"awaitLaunch", "awaitContext"}
         /\ req[r].retries = MAX_RETRIES
         /\ req'[r].failed /\ ~req'[r].bound
         /\ req'[r].pc = "done" /\ req'[r].resp.status = 500

\* C6: createBrowserContext retries a failed attempt at most MAX_RETRIES times
\* (MAX_RETRIES + 1 attempts), waits base * k before retry number k, returns the
\* session of the first attempt that succeeds, throws to its caller after the
\* last failed attempt, and terminates: every step of it lowers a measure
\* that is bounded below.
C6_BoundedLinearRetry == []C6_Inv /\ [][C6_Step]_vars

\* C6 witness: the last attempt (number MAX_RETRIES + 1) is under way after
\* MAX_RETRIES waits, the last of them MAX_RETRIES times the base.
C6_Witness ==
  \E r \in Req :
    /\ InCreate(req[r])
    /\ req[r].pc = "awaitLaunch"
    /\ req[r].retries = MAX_RETRIES
    /\ Len(req[r].waits) = MAX_RETRIES
    /\ req[r].waits[MAX_RETRIES] = RetryBase(program) * MAX_RETRIES

\* C7: the limit handed to the scraper is 50 when the limit parameter is absent
\* or not a number, and lies in 1..100 for every value of the parameter.
C7_LimitClamped ==
  \A r \in Req :
    (req[r].pc \notin {"new", "absent"} /\ CachedRoute(req[r])) =>
      /\ req[r].q.kind \in {"absent", "text"} => req[r].limit = LIMIT_DEFAULT
      /\ req[r].limit \in 1..LIMIT_CAP

\* The body carries an error kind and a message (msg in the legacy version).
ErrorAndMessage(fields) == "error" \in fields /\ ({"message", "msg"} \cap fields # {})

\* C8: every /trending or /top50 request that ends got exactly one response:
\* 500 with an error kind and a message when the scrape threw, and a success
\* with the result when it did not.
C8_OneJsonResponse ==
  \A r \in Req :
    (Ended(req[r]) /\ req[r].route \in {"trending", "top50"} /\ req[r].resp.status # 401) =>
      /\ req[r].nresp = 1
      /\ req[r].failed => (req[r].resp.status = 500 /\ ErrorAndMessage(req[r].resp.fields))
      /\ ~req[r].failed => req[r].resp.status = 200

\* C9: no exception leaves the /debug handler, and every /debug request that
\* ends has got one response, with the failure in its body when there was one.
C9_DebugAlwaysAnswers ==
  \A r \in Req :
    req[r].route = "debug" =>
      /\ req[r].pc # "escaped"
      /\ Ended(req[r]) =>
           /\ req[r].nresp = 1
           /\ req[r].failed => "error" \in req[r].resp.fields

\* The request has passed the middleware: its route handler has run.
Proceeded(rq) == rq.pc \notin {"new", "absent"} /\ rq.resp.status # 401

\* C10: with an API key configured, a request whose x-api-key header is absent
\* or different gets 401, its route handler does not run and no browser is
\* opened for it; a request with the matching header, and every request when
\* no key is configured, goes on to its route.
C10_ApiKeyGate ==
  \A r \in Req :
    req[r].pc \notin {"new", "absent"} =>
      IF apiKey # "" /\ req[r].hdr # apiKey
        THEN /\ req[r].resp.status = 401
             /\ req[r].pc = "done" /\ req[r].nresp = 1
             /\ req[r].open = 0 /\ req[r].closes = 0 /\ ~req[r].bound
        ELSE Proceeded(req[r])

\* C10 witness: with the key k1 configured, one request with another key was
\* refused and one with k1 has a browser session open in its route handler.
C10_Witness ==
  /\ apiKey = "k1"
  /\ \E r, s \in Req :
       /\ req[r].hdr = "k2" /\ req[r].resp.status = 401
       /\ req[s].hdr = "k1" /\ req[s].bound /\ req[s].open = 1


\* The ranking of getTrendingTop50 has been applied.
RankedTop50 == calc.fn = "rank" /\ calc.done /\ program \in {"v2", "basic"}

\* The records of the input published at most h hours before now.
PublishedWithin(h) ==
  {calc.items[i] : i \in {j \in 1..Len(calc.items) :
                            calc.items[j].dated /\ calc.items[j].age <= h * 60}}
Elements(s) == {s[i] : i \in 1..Len(s)}

\* C13: the recency pool used for scoring is the set of records published
\* within 24 hours of now when at least 50 such records exist, and otherwise
\* the set of records published within 48 hours of now.
C13_RecencyPool ==
  RankedTop50 =>
    /\ Len(calc.recent) = Cardinality(Elements(calc.recent))
    /\ Elements(calc.recent) =
         (IF Cardinality(PublishedWithin(24)) >= 50
            THEN PublishedWithin(24) ELSE PublishedWithin(48))

\* C13 witness: exactly 50 records lie within 24 hours and more within 48
\* hours, and the pool is the 50 of the 24 hours.
C13_Witness ==
  /\ RankedTop50
  /\ Cardinality(PublishedWithin(24)) = 50
  /\ Cardinality(PublishedWithin(48)) > 50
  /\ Elements(calc.recent) = PublishedWithin(24)


\* The records of the output that carry a score, and those that do not.
ScoredAt(out) == {i \in 1..Len(out) : out[i].scored}
FilledAt(out) == {i \in 1..Len(out) : ~out[i].scored}
Likes3(r) == r.likes + r.comments + r.shares

\* C14: when fewer than 50 records are scored, the output is the scored
\* records followed by records of the full merged set that are not already
\* selected, taken in non-increasing likes+comments+shares order (no record
\* left out outranks one taken); no video_id appears twice in the output, and
\* the output is as long as the smaller of 50 and the number of distinct
\* records of the merged set.
C14_Backfill ==
  RankedTop50 =>
    LET out == calc.top
        items == calc.items
    IN /\ Len(calc.recent) < 50 =>
            /\ ScoredAt(out) = 1..Len(calc.recent)
            /\ \A i \in FilledAt(out) :
                 /\ out[i] \in Elements(items)
                 /\ \A j \in ScoredAt(out) : out[j].video_id # out[i].video_id
            /\ \A i, j \in FilledAt(out) : i < j => Likes3(out[i]) >= Likes3(out[j])
            /\ \A r \in Elements(items) :
                 (r.video_id \notin Ids(out)) =>
                   \A i \in FilledAt(out) : Likes3(out[i]) >= Likes3(r)
       /\ \A i, j \in 1..Len(out) : i # j => out[i].video_id # out[j].video_id
       /\ Len(out) = Min(50, Cardinality(Ids(items)))

\* C14 witness: fewer than 50 records were scored, the merged set holds more
\* than 50, and the output was filled up to 50 with a record that has no score
\* while another record without a score stayed out.
C14_Witness ==
  /\ RankedTop50
  /\ Len(calc.recent) < 50
  /\ Len(calc.items) > 50
  /\ Len(calc.top) = 50
  /\ FilledAt(calc.top) # {}
  /\ \E r \in Elements(calc.items) : r.video_id \notin Ids(calc.top)


\* The score of the scoring formula for a record with a publish time, as the
\* nearest number of thousandths: i * 60 / h + 250 * i / v with h in minutes.
FormulaScore(r) ==
  LET i == r.likes + 2 * r.comments + 3 * r.shares
      h == IF r.age > 60 THEN r.age ELSE 60
      v == IF r.views > 1 THEN r.views ELSE 1
      num == i * 60 * v + 250 * i * h
      den == h * v
  IN 1000 * (num \div den) + (2000 * (num % den) + den) \div (2 * den)

\* The records of the output that the claim orders: those that went through
\* the scoring where there is one, and otherwise every record with a publish
\* time.
Ordered(out) ==
  IF program \in {"v2", "basic"} THEN ScoredAt(out)
  ELSE {i \in 1..Len(out) : out[i].dated}

\* C15: for a limit of at least 1 the output holds at most limit records, and
\* it lists its records in non-increasing order of the score of the scoring
\* formula.
C15_RankedByScore ==
  (calc.fn = "rank" /\ calc.done /\ calc.limit >= 1) =>
    /\ Len(calc.top) <= calc.limit
    /\ \A i, j \in Ordered(calc.top) :
         i < j => FormulaScore(calc.top[i]) >= FormulaScore(calc.top[j])


\* The parts of the scoring formula for a record r, with the hours in minutes.
FormulaInteractions(r) == r.likes + 2 * r.comments + 3 * r.shares
FormulaMinutes(r) == IF r.age > 60 THEN r.age ELSE 60
FormulaViews(r) == IF r.views > 1 THEN r.views ELSE 1
FormulaNum(r) ==
  FormulaInteractions(r) * 60 * FormulaViews(r)
    + 250 * FormulaInteractions(r) * FormulaMinutes(r)
FormulaDen(r) == FormulaMinutes(r) * FormulaViews(r)

\* The score of r is a whole number of thousandths.
ExactInThousandths(r) == (1000 * (FormulaNum(r) % FormulaDen(r))) % FormulaDen(r) = 0

\* The records that were scored: the recency pool, each with its score.
ScoredRecords == {calc.top[i] : i \in ScoredAt(calc.top)}

\* C16 as stated: the score of every record of the recency pool is exactly
\* perHour + engagementRatio * 250, with the hours floored at 1.
C16_Original ==
  RankedTop50 =>
    \A r \in ScoredRecords :
      /\ ExactInThousandths(r)
      /\ r.score = 1000 * (FormulaNum(r) \div FormulaDen(r))
                     + (1000 * (FormulaNum(r) % FormulaDen(r))) \div FormulaDen(r)

\* C16 amended: the score of every record of the recency pool is
\* perHour + engagementRatio * 250 rounded to three decimals, where
\* interactions = likes + 2*comments + 3*shares, perHour = interactions /
\* max(hoursSincePost, 1) and engagementRatio = interactions / max(views, 1); a
\* record published less than one hour ago, or in the future, is scored with
\* 1 hour.
C16_ScoreFormula ==
  RankedTop50 =>
    \A r \in ScoredRecords :
      /\ r.score = FormulaScore(r)
      /\ r.age <= 60 =>
           LET i == r.likes + 2 * r.comments + 3 * r.shares
               v == FormulaViews(r)
           IN r.score = 1000 * i + 1000 * ((250 * i) \div v)
                          + (2000 * ((250 * i) % v) + v) \div (2 * v)

\* C16 witness: the output holds a scored record published in the future, one
\* published less than an hour ago, and one whose score has more than three
\* decimals.
C16_Witness ==
  /\ RankedTop50
  /\ \E r \in ScoredRecords : r.age < 0 /\ r.score > 0
  /\ \E r \in ScoredRecords : r.age > 0 /\ r.age < 60 /\ r.score > 0
  /\ \E r \in ScoredRecords : ~ExactInThousandths(r)


\* C17: a record without published_at is never part of the recency pool and
\* never carries a score; it stays eligible as backfill: when fewer than 50
\* records are scored, it is in the output unless the output is full of
\* records that rank at least as high by likes+comments+shares.
C17_UndatedOnlyBackfill ==
  RankedTop50 =>
    /\ \A r \in Elements(calc.recent) : r.dated
    /\ \A i \in 1..Len(calc.top) :
         ~calc.top[i].dated => (~calc.top[i].scored /\ calc.top[i].score = 0)
    /\ Len(calc.recent) < 50 =>
         \A r \in Elements(calc.items) :
           ~r.dated =>
             \/ r \in Elements(calc.top)
             \/ /\ Len(calc.top) = 50
                /\ \A i \in FilledAt(calc.top) : Likes3(calc.top[i]) >= Likes3(r)

\* C17 witness: the output holds scored records and, after them, a record
\* without published_at that carries no score.
C17_Witness ==
  /\ RankedTop50
  /\ ScoredAt(calc.top) # {}
  /\ \E i \in FilledAt(calc.top) :
       /\ ~calc.top[i].dated
       /\ \A j \in ScoredAt(calc.top) : j < i


Scraped == calc.fn = "merge" /\ calc.done

\* C11: the list a scrape returns never holds two records with the same
\* video_id.
C11_NoDuplicateIds ==
  Scraped =>
    \A i, j \in 1..Len(calc.top) :
      i # j => calc.top[i].video_id # calc.top[j].video_id

\* structured state over network intercept over DOM scrape
Fidelity(r) ==
  CASE r.source \in StructuredSources -> 3
    [] r.source \in InterceptSources -> 2
    [] r.source \in DomSources -> 1

\* C12: of the records discovered with one video_id the scrape keeps the one
\* of the highest-fidelity source, whatever the order of discovery, and of
\* those of equal fidelity the one seen first.
C12_KeepsHighestFidelity ==
  Scraped =>
    \A i \in 1..Len(calc.top) : \A j \in 1..Len(calc.found) :
      calc.found[j].video_id = calc.top[i].video_id =>
        \/ Fidelity(calc.found[j]) < Fidelity(calc.top[i])
        \/ /\ Fidelity(calc.found[j]) = Fidelity(calc.top[i])
           /\ calc.top[i].seen <= calc.found[j].seen

\* C19: when every candidate URL yields no record (it cannot be reached, shows
\* a challenge, or nothing is extracted) the scrape does not throw and returns
\* an empty list with a metadata of zero found and zero returned.
C19_EmptyScrapeIsEmptyResult ==
  (Scraped /\ Len(calc.found) = 0) =>
    /\ ~calc.threw
    /\ Len(calc.top) = 0
    /\ Len(calc.items) = 0
    /\ calc.returned = 0


\* The raw fields a counter of the record is read from.
RawOf(counter) ==
  IF calc.kind = "state"
    THEN CASE counter = "views" -> {calc.item.playCount}
           [] counter = "likes" -> {calc.item.diggCount}
           [] counter = "comments" -> {calc.item.commentCount}
           [] counter = "shares" -> {calc.item.shareCount}
    ELSE CASE counter = "views" -> {calc.item.play_count, calc.item.view_count}
           [] counter = "likes" -> {calc.item.digg_count, calc.item.like_count}
           [] counter = "comments" -> {calc.item.comment_count}
           [] counter = "shares" -> {calc.item.share_count}

RecordCounters == {"views", "likes", "comments", "shares"}

RawIdsOf ==
  IF calc.kind = "state" THEN {calc.item.id}
  ELSE {calc.item.aweme_id, calc.item.item_id, calc.item.id}

\* A valid raw item: it has an id, and each counter it has is null or a
\* number that is not negative.
ValidRaw ==
  /\ \E x \in RawIdsOf : x.kind = "num" /\ x.val # 0
  /\ \A c \in RecordCounters : \A x \in RawOf(c) : x.kind = "num" => x.val >= 0

MapperRan == calc.fn = "map" /\ calc.done

\* C20: for every valid raw item the record of the mapper has a video_id
\* that is not empty and views, likes, comments and shares that are not
\* negative; a counter the raw item does not have is 0.
C20_MapperRecord ==
  (MapperRan /\ ValidRaw) =>
    /\ calc.record.video_id # 0
    /\ \A c \in RecordCounters :
         /\ calc.record[c] >= 0
         /\ (\A x \in RawOf(c) : x.kind = "missing") => calc.record[c] = 0

\* C20 witness: a valid item with one counter missing and one above zero
\* has been mapped.
C20_Witness ==
  /\ MapperRan
  /\ ValidRaw
  /\ \E c \in RecordCounters : \A x \in RawOf(c) : x.kind = "missing"
  /\ \E c \in RecordCounters : calc.record[c] > 0


\* The places of a caption where a hashtag starts: a hash sign before a
\* Unicode letter, a digit or an underscore.
TagStarts(text) ==
  {i \in 1..Len(text) : text[i] = "#" /\ i < Len(text) /\ text[i + 1] \in {"w", "E", "1", "_"}}

\* The hashtag that starts at i: the hash sign and all the letters, digits
\* and underscores that follow it.
TagAt(text, i) ==
  LET ends == {e \in (i + 1)..Len(text) :
                 /\ \A k \in (i + 1)..e : text[k] \in {"w", "E", "1", "_"}
                 /\ (e = Len(text) \/ text[e + 1] \notin {"w", "E", "1", "_"})}
  IN SubSeq(text, i, CHOOSE e \in ends : TRUE)

\* The places where a hashtag occurs for the first time.
FirstStarts(text) ==
  {i \in TagStarts(text) : \A j \in TagStarts(text) : j < i => TagAt(text, j) # TagAt(text, i)}

Extracted == calc.fn = "tags" /\ calc.stage >= 1

\* C21: the hashtags of a record are the tokens of a hash sign and one or
\* more Unicode letters, digits or underscores of the caption, each once, in
\* the order of their first occurrence, the first 10 of them at most; an
\* empty caption gives none.
C21_HashtagsOfCaption ==
  Extracted =>
    LET firsts == FirstStarts(calc.text)
    IN /\ Len(calc.tags) = Min(Cardinality(firsts), 10)
       /\ \A k \in 1..Len(calc.tags) :
            \E i \in firsts :
              /\ calc.tags[k] = TagAt(calc.text, i)
              /\ Cardinality({j \in firsts : j < i}) = k - 1

\* C22: extractHashtags of the space-joined output of extractHashtags is
\* that output again, in the same order.
C22_HashtagsIdempotent ==
  (calc.fn = "tags" /\ calc.stage = 2) => calc.again = calc.tags

\* C22 witness: a caption with a repeated hashtag and another one gave two
\* hashtags, and these were joined and extracted again.
C22_Witness ==
  /\ calc.fn = "tags"
  /\ calc.stage = 2
  /\ Len(calc.tags) >= 2
  /\ Cardinality(TagStarts(calc.text)) > Cardinality(FirstStarts(calc.text))
  /\ calc.again = calc.tags


\* Request r went through scrapeTopTrending on a cache miss and was answered
\* with a result.
MissedAndAnswered(r) ==
  /\ program \in KeyedPrograms
  /\ req[r].pc = "done"
  /\ req[r].route = "trending"
  /\ ~req[r].hit
  /\ req[r].resp.status = 200

BothMissed == MissedAndAnswered(1) /\ MissedAndAnswered(2) /\ req[1].limit = req[2].limit

\* Request r passes cache.set in this step.
Stores(r) ==
  /\ program \in KeyedPrograms
  /\ req[r].route = "trending"
  /\ req[r].pc = "awaitWork"
  /\ req'[r].pc = "awaitClose"
  /\ ~req'[r].failed

C23_Final ==
  BothMissed =>
    /\ \A r \in Req : req[r].closes = 1 /\ req[r].resp.result.by = r
    /\ CacheKey(req[1].limit) \in DOMAIN cache
    /\ cache[CacheKey(req[1].limit)].value.by \in Req

C23_Step ==
  /\ \A r \in Req :
       Stores(r) =>
         /\ CacheKey(req[r].limit) \in DOMAIN cache'
         /\ cache'[CacheKey(req[r].limit)].value = req'[r].pend.result
         /\ cache'[CacheKey(req[r].limit)].value.by = r
  /\ \A k \in DOMAIN cache \cap DOMAIN cache' :
       cache'[k].value # cache[k].value => \E r \in Req : Stores(r) /\ k = CacheKey(req[r].limit)

\* C23: two concurrent requests with the same limit that both miss the cache
\* each close a session of their own and each get the result of their own
\* scrape; every cache.set replaces the entry that is there and nothing else
\* changes it, so that afterwards the entry holds the value of the last writer.
C23_ConcurrentMisses == []C23_Final /\ [][C23_Step]_vars

\* C23 witness: both requests missed with the same limit, ran at the same
\* time and were answered, and the entry holds the value of request 1, which
\* arrived first and wrote last.
C23_Witness ==
  /\ BothMissed
  /\ req[1].resp.result.by = 1
  /\ req[2].resp.result.by = 2
  /\ req[1].resp.result # req[2].resp.result
  /\ cache[CacheKey(req[1].limit)].value = req[1].resp.result
  /\ cache[CacheKey(req[1].limit)].expires = Ttl

\* ---- visiting one URL (SpecPage)
Visited == calc.fn = "page" /\ calc.done /\ calc.visit.ended = "done"

\* structured-state before network-intercept before DOM-scrape; the profile
\* extraction reads anchors of the document.
Priority(by) ==
  CASE by = "json" -> 3
    [] by = "api" -> 2
    [] by \in {"dom", "profile"} -> 1
    [] by = "none" -> 0

InPriorityOrder(ran) ==
  \A i \in 1..Len(ran) : \A j \in (i + 1)..Len(ran) : Priority(ran[i].by) > Priority(ran[j].by)

OnlyAfterZero(ran) ==
  \A i \in 1..Len(ran) : \A j \in 1..(i - 1) : Len(ran[j].videos) = 0

\* No strategy that ran before the one whose videos are kept, and returned
\* some, is of higher priority than it.
HighestSupplies(v) ==
  LET tries == v.ran \o v.rerun
      kept == {k \in 1..Len(tries) : tries[k] = Try(v.by, v.videos)}
  IN Len(v.videos) > 0 =>
       \A i \in 1..Len(tries) :
          (\A k \in kept : i < k) /\ Len(tries[i].videos) > 0
            => Priority(tries[i].by) <= Priority(v.by)

\* C24: on every page the strategies run in the order structured-state,
\* network-intercept, DOM-scrape, each only when all before it returned no
\* record, and the records kept are never those of a strategy of lower
\* priority than one that returned some.
C24_StrategyOrder ==
  Visited => /\ InPriorityOrder(calc.visit.ran)
             /\ OnlyAfterZero(calc.visit.ran)
             /\ HighestSupplies(calc.visit)

\* C25: a URL whose page has a bot-verification keyword in its title or in
\* its URL has no extraction strategy run on it, gives no record, and does
\* not make the visit throw.
C25_ChallengeSkipsUrl ==
  calc.fn = "page" /\ calc.done /\ calc.page.reach \in {"challenge", "captcha"}
    => /\ calc.visit.ran = <<>>
       /\ calc.visit.rerun = <<>>
       /\ calc.visit.videos = <<>>
       /\ calc.visit.ended = "challenge"

\* The visit scrolled and ran a strategy again.
Rescanned == Visited /\ Len(calc.visit.rerun) > 0

FirstSet == Last(calc.visit.ran)

KeepsLarger ==
  /\ Len(calc.visit.videos) >= Len(FirstSet.videos)
  /\ \A i \in 1..Len(calc.visit.rerun) :
        Len(calc.visit.videos) >= Len(calc.visit.rerun[i].videos)

SameStrategyAgain ==
  Len(FirstSet.videos) > 0
    => \A i \in 1..Len(calc.visit.rerun) : calc.visit.rerun[i].by = FirstSet.by

\* C29: after the re-run that follows the scroll, the videos kept for the URL
\* are the larger of those found before and those found after, never fewer
\* than were found before, and the re-run is of the strategy that gave the
\* first set.
C29_RerunKeepsLarger == Rescanned => KeepsLarger /\ SameStrategyAgain

\* ---- the navigations of a scrape (SpecMerge)
\* The navigations of the scrape that found the URL unreachable.
FailedAt ==
  {i \in 1..Len(calc.went) : ServedTo(program, calc)[calc.went[i]].reach = "fail"}

HeldBefore(i) == IF i = 1 THEN 0 ELSE calc.tally[i - 1]

\* The versions that add the videos of each URL to those of the URLs before.
Accumulates == program \in {"mobile", "v2"}

\* C26: a navigation that fails on one URL does not make the scrape fail; the
\* next URL of the list, if there is one, is gone to, and the videos held
\* from the URLs before are still held.
C26_NavigationFailureNotFatal ==
  calc.fn = "merge" /\ calc.done =>
    \A i \in FailedAt :
       /\ ~calc.threw
       /\ calc.went[i] < UrlCount(program, calc.patched) => i < Len(calc.went)
       /\ Accumulates => calc.tally[i] = HeldBefore(i)

\* The versions whose loop over the URLs has a stop threshold, and the threshold.
StopsEarly == program = "mobile" \/ (program = "tested" /\ calc.patched)

StopThreshold == IF program = "mobile" THEN MOBILE_ENOUGH ELSE PATCH_ENOUGH

\* C27: the loop over the URLs ends before the end of the list exactly when
\* the distinct video ids held reach the stop threshold: no URL is gone to
\* once they have reached it, and while they are fewer and URLs remain the
\* loop goes on.
C27_StopsAtThreshold ==
  calc.fn = "merge" /\ calc.done /\ StopsEarly =>
    /\ \A i \in 1..(Len(calc.went) - 1) : calc.tally[i] < StopThreshold
    /\ Last(calc.went) < UrlCount(program, calc.patched)
         => Last(calc.tally) >= StopThreshold

Scraped28 == calc.fn = "merge" /\ calc.done

InListOrder == \A i \in 1..Len(calc.went) : \A j \in (i + 1)..Len(calc.went) :
                 calc.went[i] <= calc.went[j]

\* The navigations that go to a URL already gone to.
Repeats == {j \in 2..Len(calc.went) : \E i \in 1..(j - 1) : calc.went[i] = calc.went[j]}

\* Each URL is gone to at most once, in the order of the list, and the scrape
\* makes no more navigations than the list has URLs.
C28_EachUrlOnce ==
  Scraped28 => /\ InListOrder
               /\ Repeats = {}
               /\ Len(calc.went) <= UrlCount(program, calc.patched)

\* C28: the URLs are gone to in the order of the list, none is gone to again
\* after a failure, a timeout or a detected challenge, and the loop ends
\* after one pass over the list at most; a URL is gone to once, but for the
\* explore page of getTopTrending, which is gone to a second time (to read
\* its links) when it was reached and its state gave no rows.
C28_NoRetryOnePass ==
  Scraped28 =>
    /\ InListOrder
    /\ \A j \in Repeats :
          /\ program = "legacy"
          /\ j = 2
          /\ ServedTo(program, calc)[calc.went[j]].reach # "fail"
          /\ calc.tally[1] = 0
    /\ Len(calc.went) <= UrlCount(program, calc.patched) + (IF program = "legacy" THEN 1 ELSE 0)

\* A URL of TIKTOK_URLS could not be reached, another showed a challenge, and
\* the loop went on to the URLs after them.
C28_Witness ==
  /\ Scraped28
  /\ program = "mobile"
  /\ \E i \in FailedAt : i < Len(calc.went)
  /\ \E i \in 1..(Len(calc.went) - 1) :
        ServedTo(program, calc)[calc.went[i]].reach = "challenge"

\* ---- a batch of raw items (SpecBatch)
\* The ids of the items of the batch that map, in the order of the batch.
GoodIds ==
  LET good == FilterIdx(calc.items, {i \in 1..Len(calc.items) : calc.items[i].shape = "ok"})
  IN [k \in 1..Len(good) |-> good[k].id]

\* C30: an item of a batch that fails to map (a null item, a malformed
\* nested structure) is dropped alone: the mapper does not throw and returns
\* the records of all the other items, in their order.
C30_MapperDropsOnlyFailed ==
  calc.fn = "batch" /\ calc.done =>
    /\ ~calc.threw
    /\ [k \in 1..Len(calc.out) |-> calc.out[k].video_id] = GoodIds

\* ---- where a mapper takes its items from (SpecPick)
\* The candidates that hold items.
NonEmpty == {k \in 1..Len(calc.fill) : calc.fill[k] = "some"}

\* C31: the mapper goes through the items of the first candidate, in its
\* order of resolution, that holds any, whatever empty candidates come
\* before it, and through the items of that candidate only.
C31_FirstNonEmptyCandidate ==
  calc.fn = "pick" /\ calc.done =>
    IF NonEmpty = {} THEN calc.items = <<>>
    ELSE calc.items = ItemsAt(calc.fill, CHOOSE k \in NonEmpty : \A j \in NonEmpty : k <= j)

\* ---- the pages of the videos (SpecEnrich)
Enriching == calc.fn = "enrich"

OpenInOneBatch ==
  /\ \A i \in calc.open : \A j \in calc.open : BatchOf(program, i) = BatchOf(program, j)
  /\ Cardinality(calc.open) <= BatchWidth(program)

ClosedWhenReturned ==
  \A i \in 1..calc.links : calc.pages[i] \in Settled \cup {"idle", "called", "rejected"}
                              => i \notin calc.open

\* The calls made in this step are made when every call of the batches before
\* has returned.
StartsAfterPrevious ==
  \A i \in 1..calc.links :
     calc.pages[i] = "idle" /\ calc'.pages[i] = "called"
       => \A j \in 1..calc.links :
             BatchOf(program, j) < BatchOf(program, i) => calc.pages[j] \in Settled

\* C32: while the pages of the videos are visited, the pages open are those
\* of one batch at most (6 in getTopTrending, 4 in getTrendingTop50); the
\* calls of a batch are made only when every call of the batch before has
\* returned; and a call of extractFromVideoPage that has returned, with a
\* record, with null or after an exception, has closed its page.
C32_OneBatchOpen ==
  /\ [](Enriching => OpenInOneBatch /\ ClosedWhenReturned)
  /\ [][Enriching => StartsAfterPrevious]_vars

\* C32 witness: getTopTrending is in its second batch with the page of its
\* seventh link open, after a first batch of six of which one call returned
\* a record and another null.
C32_Witness ==
  /\ Enriching
  /\ program = "legacy"
  /\ calc.batch = 2
  /\ calc.links \in calc.open
  /\ \E i \in 1..LEGACY_BATCH : calc.pages[i] = "gotRecord"
  /\ \E i \in 1..LEGACY_BATCH : calc.pages[i] = "gotNull"

\* ---- the frame of the SimpleCache operations (SpecCache)
\* The keys that leave the map in this step.
Removed == (DOMAIN cache) \ (DOMAIN cache')

\* This step is a call of get.
IsGet == lastOp' # lastOp /\ lastOp'.op = "get"

GetOfExpired == IsGet /\ lastOp'.key \in DOMAIN cache /\ Expired(cache[lastOp'.key], now)

C33_Step ==
  /\ GetOfExpired =>
        /\ Removed = {lastOp'.key}
        /\ SimpleCacheSize(cache') = SimpleCacheSize(cache) - 1
        /\ \A k \in DOMAIN cache' : k \in DOMAIN cache /\ cache'[k] = cache[k]
  /\ IsGet /\ ~GetOfExpired => cache' = cache
  /\ Removed # {} => GetOfExpired \/ (lastOp'.op = "clear" /\ cache' = EmptyMap)
  /\ now' # now => cache' = cache

\* C33: a get of an entry past its expiry removes that entry and no other,
\* and size() drops by one; a get of a live or absent key changes nothing;
\* an entry leaves the map only by such a get or by clear, so the passing of
\* time alone removes nothing and an expired entry that is not read stays
\* and is counted.
C33_GetFrame == [][C33_Step]_vars

\* C33 witness: a get has just removed an expired entry, and another entry,
\* expired as well and not read, is still in the map and counted by size().
C33_Witness ==
  /\ calc = NoCalc
  /\ lastOp.op = "get"
  /\ lastOp.key \in DOMAIN written
  /\ lastOp.key \notin DOMAIN cache
  /\ SimpleCacheSize(cache) = 1
  /\ \E k \in DOMAIN cache : Expired(cache[k], now)

\* ---- published_at of the records scraped from the DOM (SpecPage)
\* C34: a record built from a source that carries no creation time, and so
\* every record scraped from the anchors of the DOM, has published_at null.
C34_DomRecordsUndated ==
  (calc.fn = "page" /\ calc.done) =>
    \A i \in 1..Len(calc.visit.videos) :
       calc.visit.videos[i].source = "DOM_extraction" => ~calc.visit.videos[i].dated

\* ---- the browsers of createBrowserContext (Spec)
\* C35: an attempt to open a session that fails after its browser was
\* launched closes that browser before the next attempt and before the error
\* leaves: while the retry is waited for and after the opening has thrown no
\* browser of the request is open, and once it has returned exactly one is.
C35_FailedAttemptClosesBrowser ==
  \A r \in Req :
    /\ req[r].pc = "awaitBackoff" => req[r].open = 0
    /\ req[r].pc = "awaitPage" => req[r].open = 1
    /\ (Ended(req[r]) /\ req[r].failed /\ ~req[r].bound) => req[r].open = 0

\* ---- the metadata of a /trending result (SpecMerge)
\* C36: in every result of a scrape that succeeded, metadata.returned is the
\* length of the videos list, is at most metadata.total_found, and is at most
\* the limit asked for, whatever the limit of the query.
C36_ReturnedMatchesVideos ==
  (calc.fn = "merge" /\ calc.done /\ ~calc.threw /\ program \in KeyedPrograms) =>
    /\ calc.returned = Len(calc.top)
    /\ calc.returned <= Len(calc.items)
    /\ calc.returned <= calc.limit

\* ---- the rate limiter (SpecRate)
\* The requests of ip let through in the window that ends at t.
LetIn(ip, t) ==
  Cardinality({i \in 1..Len(calc.let[ip]) :
                 calc.let[ip][i] > t - RATE_LIMIT_WINDOW /\ calc.let[ip][i] <= t})

\* The instants at which the number of requests in the window may change.
Instants == {calc.clock} \cup UNION {{calc.let[ip][i] : i \in 1..Len(calc.let[ip])} : ip \in Ips}

WindowHolds ==
  calc.fn = "rate" => \A ip \in Ips : \A t \in Instants : LetIn(ip, t) <= RATE_LIMIT_MAX

\* A request of calc'.last.ip is answered in this step.
Answered == calc.fn = "rate" /\ calc'.clock = calc.clock /\ calc' # calc

C37_Step ==
  Answered =>
    LET ip == calc'.last.ip
        full == LetIn(ip, calc.clock) >= RATE_LIMIT_MAX
    IN /\ calc'.last.status = (IF full THEN 429 ELSE 200)
       /\ full => calc'.let = calc.let /\ Len(calc'.limiter[ip]) = RATE_LIMIT_MAX
       /\ ~full => calc'.let[ip] = Append(calc.let[ip], calc.clock)
       /\ \A other \in Ips \ {ip} :
            /\ calc'.let[other] = calc.let[other]
            /\ other \in DOMAIN calc.limiter =>
                 other \in DOMAIN calc'.limiter /\ calc'.limiter[other] = calc.limiter[other]
            /\ other \notin DOMAIN calc.limiter => other \notin DOMAIN calc'.limiter

\* C37: for every client and every instant at most RATE_LIMIT_MAX of its
\* requests were let through in the window that ends there; a request that
\* arrives when that many are in the window is answered 429 and is not
\* recorded; and the answer to a request depends on the requests of its own
\* client only, the entries of the other clients being left as they are.
C37_RateLimit == []WindowHolds /\ [][C37_Step]_vars

\* C37 witness: the first client has just been refused with its window full,
\* after requests of an earlier window were let through, and the second
\* client was let through meanwhile.
C37_Witness ==
  /\ calc.fn = "rate"
  /\ calc.last = [ip |-> "ip1", status |-> 429, at |-> calc.clock]
  /\ Len(calc.let["ip1"]) = 2 * RATE_LIMIT_MAX
  /\ LetIn("ip1", calc.clock) = RATE_LIMIT_MAX
  /\ calc.let["ip2"] # <<>>
  /\ calc.let["ip2"][Len(calc.let["ip2"])] > calc.let["ip1"][1]

\* ---- extractFromProfile on a profile page (SpecPage)
\* C38: on a profile URL whose page holds at least one anchor of a video,
\* extractFromProfile returns a record for each, so the profile strategy
\* supplies the videos and no later strategy of getExploreVideos is run.
C38_ProfileAnchorsGiveRecords ==
  (/\ calc.fn = "page" /\ calc.done /\ program = "mobile"
   /\ calc.u <= MOBILE_PROFILES
   /\ calc.page.reach = "ok"
   /\ calc.page.anchors # <<>>) =>
    /\ Len(calc.visit.ran) = 1
    /\ calc.visit.ran[1].by = "profile"
    /\ Len(calc.visit.ran[1].videos) = Len(calc.page.anchors)
====
